---- MODULE Spec2Model ----
(***************************************************************************)
(* Model of the guided-dialogue engine of framingbot                       *)
(* (src/conversation_engine.py), its session store and the skills it calls.*)
(*                                                                         *)
(* Text is modelled as a sequence of Unicode code points, a Python dict as *)
(* a function whose DOMAIN is its key set, a Python list as a sequence.    *)
(* A value parsed from JSON is a record tagged with its type.              *)
(***************************************************************************)
EXTENDS Integers, Sequences, FiniteSets, TLC

VARIABLES
    sessions,   \* the in-memory map `sessions`: session id -> session dict
    disk,       \* SESSION_DIR: session id -> the file <id>.json
    issued,     \* how many ids uuid4 has handed out to start_session
    last,       \* what the most recent call did (its inputs and its outcome)
    hist,       \* per session id: which kinds of event it has seen so far
    completed,  \* per session id: the session as the last call that returned left it
    committed,  \* per session id: the session as the last successful write stored it
    threads,    \* per worker thread: the process_message request it is serving
    window,     \* the requests that overlap: the session before them, the skills they called
    response,   \* the HTTP response of the most recent request to the server
    pipe,       \* the call of the batch pipeline in progress or last made
    reply,      \* the text of a completion reply and what _clean_response makes of it
    record      \* a framing record, the page written from it, the fields read back

vars == <<sessions, disk, issued, last, hist, completed, committed, threads, window,
          response, pipe, reply, record>>

\* the variables of the dialogue and of the server
dialogue_vars == <<sessions, disk, issued, last, hist, completed, committed, threads,
                   window, response>>

----------------------------------------------------------------------------
(* Bounds of the model                                                     *)

\* how many sessions start_session may create
MaxSessions == 1
\* how many user turns one session may take (length of raw_input_parts)
MaxTurns == 5
\* how many user turns one session may take when the disk can fail
MaxStoreTurns == 3
\* how many threads of the server's pool serve requests at the same time
MaxThreads == 2
\* how many user turns one session may take when requests overlap
MaxConcTurns == 4
\* how many user turns one session may take through the HTTP endpoints
MaxServerTurns == 3
\* how many pieces a composed completion reply may have
MaxPieces == 5
\* the turns of a session whose user writes different messages
MaxTranscriptTurns == 3

----------------------------------------------------------------------------
(* Text                                                                    *)

\* the characters str.strip() removes that occur in the model: space, \n
Whitespace == {32, 10}
\* the characters rstrip("?!.") removes
TrailingPunct == {63, 33, 46}
\* '一' and '鿿'
CJK_FIRST == 19968
CJK_LAST == 40959
\* raw_input[:100]
PROJECT_NAME_CAP == 100

EmptyText == << >>
SPACE == <<32>>

RECURSIVE LStripChars(_, _)
LStripChars(text, chars) ==
    IF text # << >> /\ Head(text) \in chars
    THEN LStripChars(Tail(text), chars)
    ELSE text

RECURSIVE RStripChars(_, _)
RStripChars(text, chars) ==
    IF text # << >> /\ text[Len(text)] \in chars
    THEN RStripChars(SubSeq(text, 1, Len(text) - 1), chars)
    ELSE text

Strip(text) == RStripChars(LStripChars(text, Whitespace), Whitespace)

Truncate(text, n) == IF Len(text) <= n THEN text ELSE SubSeq(text, 1, n)

RECURSIVE JoinSpace(_)
JoinSpace(parts) ==
    IF parts = << >> THEN EmptyText
    ELSE IF Len(parts) = 1 THEN parts[1]
    ELSE parts[1] \o SPACE \o JoinSpace(Tail(parts))

RECURSIVE CountCJK(_)
CountCJK(text) ==
    IF text = << >> THEN 0
    ELSE (IF CJK_FIRST <= Head(text) /\ Head(text) <= CJK_LAST THEN 1 ELSE 0)
         + CountCJK(Tail(text))

\* cjk_count > len(text) * 0.1, in integers
_detect_language(text) ==
    IF 10 * CountCJK(text) > Len(text) THEN "zh" ELSE "en"

\* raw_input[:100].strip().rstrip("?!.").strip()
ProjectNameOf(raw_input) ==
    Strip(RStripChars(Strip(Truncate(raw_input, PROJECT_NAME_CAP)), TrailingPunct))

----------------------------------------------------------------------------
(* Python dicts and JSON values                                            *)

EmptyDict == [k \in {} |-> << >>]

\* d.get(k, default)
Get(d, k, default) == IF k \in DOMAIN d THEN d[k] ELSE default

\* d1.update(d2) / d[k] = v
Update(d1, d2) == d2 @@ d1
Put(d, k, v) == (k :> v) @@ d

\* a parsed JSON value: its type t and, by type, b (bool), i (int, or the length of
\* a list), s (str), d (dict)
JValue(t, b, i, s, d) == [t |-> t, b |-> b, i |-> i, s |-> s, d |-> d]
JNone == JValue("null", FALSE, 0, "", EmptyDict)
JBool(b) == JValue("bool", b, 0, "", EmptyDict)
JInt(i) == JValue("int", FALSE, i, "", EmptyDict)
JStr(s) == JValue("str", FALSE, 0, s, EmptyDict)
JList(n) == JValue("list", FALSE, n, "", EmptyDict)
JObj(d) == JValue("obj", FALSE, 0, "", d)

\* bool(x) of a parsed JSON value
Truthy(j) ==
    CASE j.t = "null" -> FALSE
      [] j.t = "bool" -> j.b
      [] j.t = "int" -> j.i # 0
      [] j.t = "str" -> j.s # ""
      [] j.t = "list" -> j.i > 0
      [] j.t = "obj" -> DOMAIN j.d # {}

\* x == "literal" for a parsed JSON value x
IsStr(j, s) == j.t = "str" /\ j.s = s

----------------------------------------------------------------------------
(* Phases, Artifact, session                                               *)

PHASE_ORDER == << "greeting", "tension_discovery", "positioning",
                  "question_sharpening", "method_contribution", "complete" >>

\* PHASE_ORDER[i] with Python's 0-based index
PhaseAt(i) == PHASE_ORDER[i + 1]

\* the keys of PHASE_PROMPTS
PHASE_PROMPTS == { "greeting", "tension_discovery", "positioning",
                   "question_sharpening", "method_contribution", "complete" }

FieldNames == { "Project Name", "Owner", "Research Type", "Background", "Purpose",
                "RQ", "Method", "Result", "Contribution", "Year" }

\* str(datetime.now().year)
YearText == <<50, 48, 50, 54>>

_empty_framing ==
    [f \in FieldNames |-> IF f = "Year" THEN YearText ELSE EmptyText]

\* the session dict start_session builds
NewSession(session_id, owner) ==
    [ id |-> session_id,
      phase |-> "greeting",
      phase_index |-> 0,
      messages |-> << >>,
      framing |-> [_empty_framing EXCEPT !["Owner"] = owner],
      owner |-> owner,
      raw_input_parts |-> << >>,
      rq_candidates |-> << >> ]

Message(role, content) == [role |-> role, content |-> content]

----------------------------------------------------------------------------
(* The completion reply and its embedded signal                            *)

\* a reply is a sequence of segments: prose, or one <extract>...</extract> span
TextSeg(text) == [kind |-> "text", text |-> text, valid |-> FALSE, json |-> JNone]
\* an extract span whose body json.loads parses to j
ExtractSeg(j) == [kind |-> "extract", text |-> EmptyText, valid |-> TRUE, json |-> j]
\* an extract span whose body is not JSON
BadExtractSeg == [kind |-> "extract", text |-> EmptyText, valid |-> FALSE, json |-> JNone]

ExtractSegs(raw_reply) ==
    SelectSeq(raw_reply, LAMBDA seg : seg.kind = "extract")

\* re.search finds the first span; json.loads of its body, None on JSONDecodeError
_extract_tag(raw_reply) ==
    LET spans == ExtractSegs(raw_reply)
    IN  IF spans = << >> THEN JNone
        ELSE IF spans[1].valid THEN spans[1].json
        ELSE JNone

RECURSIVE CleanSegs(_, _)
\* the text left when every span is cut out together with the whitespace around it
CleanSegs(raw_reply, i) ==
    IF i > Len(raw_reply) THEN EmptyText
    ELSE IF raw_reply[i].kind = "extract" THEN CleanSegs(raw_reply, i + 1)
    ELSE LET t0 == raw_reply[i].text
             t1 == IF i > 1 /\ raw_reply[i - 1].kind = "extract"
                   THEN LStripChars(t0, Whitespace) ELSE t0
             t2 == IF i < Len(raw_reply) /\ raw_reply[i + 1].kind = "extract"
                   THEN RStripChars(t1, Whitespace) ELSE t1
         IN  t2 \o CleanSegs(raw_reply, i + 1)

_clean_response(raw_reply) == Strip(CleanSegs(raw_reply, 1))

----------------------------------------------------------------------------
(* Skills (framing_agent.run_skill)                                        *)

\* one call of run_skill(skill_name, skill_input)
Invoke(skill_name, skill_input) == [name |-> skill_name, input |-> skill_input]

\* what a call of run_skill does: it raises, or returns the dict the model produced
Raises == [ok |-> FALSE, out |-> EmptyDict]
Returns(out) == [ok |-> TRUE, out |-> out]

\* run_skill: the outcome the completion service gives this call
run_skill(oc, skill_name) == oc[skill_name]

\* "繁體中文" and "English"
LangLabel(lang) ==
    IF lang = "zh" THEN <<32321, 39636, 20013, 25991>>
    ELSE <<69, 110, 103, 108, 105, 115, 104>>

\* enriched["_instruction"] names the output language (the label stands for the sentence)
_with_lang(skill_input, session) ==
    Put(skill_input, "_instruction", LangLabel(Get(session, "language", "en")))

\* framing[field] = value on the session's Artifact
SetField(session, field, value) ==
    [session EXCEPT !["framing"] = [@ EXCEPT ![field] = value]]

\* an extraction that, when a skill raises, puts the Artifact back to its empty form
ExtractionRollingBack(session, calls, wrote, exc) ==
    [ session |-> IF exc = "none" THEN session
                  ELSE [session EXCEPT !["framing"] = _empty_framing],
      calls |-> calls, wrote |-> wrote, exc |-> exc ]

\* the result of a (partial) run of _run_extraction
Extraction(session, calls, wrote, exc) ==
    [session |-> session, calls |-> calls, wrote |-> wrote, exc |-> exc]

ExtractTension(session, oc) ==
    LET raw_input == JoinSpace(session["raw_input_parts"])
        c1 == Invoke("EpistemicModeClassifier",
                     _with_lang([raw_input |-> raw_input], session))
        mode_result == run_skill(oc, "EpistemicModeClassifier")
        s1 == SetField(session, "Research Type", Get(mode_result.out, "mode", EmptyText))
        c2 == Invoke("TensionExtractor", _with_lang([raw_input |-> raw_input], session))
        tension == run_skill(oc, "TensionExtractor")
        s2 == SetField(s1, "Background",
                       Get(tension.out, "dominant_assumption", EmptyText) \o SPACE
                       \o Get(tension.out, "blind_spot", EmptyText) \o SPACE
                       \o Get(tension.out, "core_gap", EmptyText))
        s3 == Put(s2, "_tension", tension.out)
    IN  IF ~mode_result.ok THEN Extraction(session, <<c1>>, {}, "SkillError")
        ELSE IF ~tension.ok
             THEN Extraction(s1, <<c1, c2>>, {"Research Type"}, "SkillError")
        ELSE Extraction(s3, <<c1, c2>>, {"Research Type", "Background"}, "none")

ExtractPositioning(session, oc) ==
    LET tension == Get(session, "_tension", EmptyDict)
        mode == session["framing"]["Research Type"]
        c1 == Invoke("ResearchPositionBuilder",
                     _with_lang([mode |-> mode, tension |-> tension], session))
        position_result == run_skill(oc, "ResearchPositionBuilder")
        s1 == SetField(session, "Purpose",
                       Get(position_result.out, "research_position", EmptyText))
    IN  IF ~position_result.ok THEN Extraction(session, <<c1>>, {}, "SkillError")
        ELSE Extraction(s1, <<c1>>, {"Purpose"}, "none")

\* the index with its sign dropped
IndexOfMagnitude(j) == IF j.i < 0 THEN 0 - j.i ELSE j.i

\* 0 <= selected_idx < len(rq_list) and rq_list[selected_idx] of an int or a bool
IndexOf(j) == IF j.t = "bool" THEN (IF j.b THEN 1 ELSE 0) ELSE j.i

ExtractQuestion(session, signal, oc) ==
    LET mode == session["framing"]["Research Type"]
        purpose == session["framing"]["Purpose"]
        c1 == Invoke("ResearchQuestionGenerator",
                     _with_lang([research_position |-> purpose, mode |-> mode], session))
        rq_result == run_skill(oc, "ResearchQuestionGenerator")
        rq_list == Get(rq_result.out, "research_questions", << >>)
        s1 == [session EXCEPT !["rq_candidates"] = rq_list]
        selected_idx == Get(signal, "selected_index", JInt(0))
    IN  IF ~rq_result.ok THEN Extraction(session, <<c1>>, {}, "SkillError")
        ELSE IF selected_idx.t \notin {"int", "bool"}
             THEN Extraction(s1, <<c1>>, {}, "TypeError")
        ELSE IF 0 <= IndexOf(selected_idx) /\ IndexOf(selected_idx) < Len(rq_list)
             THEN Extraction(
                    SetField(s1, "RQ",
                             Get(rq_list[IndexOf(selected_idx) + 1], "question", EmptyText)),
                    <<c1>>, {"RQ"}, "none")
        ELSE IF rq_list # << >>
             THEN Extraction(SetField(s1, "RQ", Get(rq_list[1], "question", EmptyText)),
                             <<c1>>, {"RQ"}, "none")
        ELSE Extraction(s1, <<c1>>, {}, "none")

ExtractMethodContribution(session, oc) ==
    LET mode == session["framing"]["Research Type"]
        selected_rq == session["framing"]["RQ"]
        tension == Get(session, "_tension", EmptyDict)
        c1 == Invoke("MethodInferrer",
                     _with_lang([mode |-> mode, selected_rq |-> selected_rq], session))
        method_result == run_skill(oc, "MethodInferrer")
        s1 == SetField(session, "Method", Get(method_result.out, "method", EmptyText))
        c2 == Invoke("ResultInferrer",
                     _with_lang([mode |-> mode, selected_rq |-> selected_rq,
                                 method |-> s1["framing"]["Method"]], session))
        result_result == run_skill(oc, "ResultInferrer")
        s2 == SetField(s1, "Result", Get(result_result.out, "result", EmptyText))
        c3 == Invoke("ContributionClaimer",
                     _with_lang([selected_rq |-> selected_rq, mode |-> mode,
                                 tension |-> tension], session))
        contrib_result == run_skill(oc, "ContributionClaimer")
        s3 == SetField(s2, "Contribution",
                       Get(contrib_result.out, "contribution", EmptyText))
        s4 == SetField(s3, "Project Name",
                       ProjectNameOf(JoinSpace(session["raw_input_parts"])))
    IN  IF ~method_result.ok THEN Extraction(session, <<c1>>, {}, "SkillError")
        ELSE IF ~result_result.ok
             THEN Extraction(s1, <<c1, c2>>, {"Method"}, "SkillError")
        ELSE IF ~contrib_result.ok
             THEN Extraction(s2, <<c1, c2, c3>>, {"Method", "Result"}, "SkillError")
        ELSE Extraction(s4, <<c1, c2, c3>>,
                        {"Method", "Result", "Contribution", "Project Name"}, "none")

\* the skills each branch of _run_extraction calls, keyed by signal["phase"]
SkillsOf(signal_phase) ==
    CASE IsStr(signal_phase, "tension") -> {"EpistemicModeClassifier", "TensionExtractor"}
      [] IsStr(signal_phase, "positioning") -> {"ResearchPositionBuilder"}
      [] IsStr(signal_phase, "question") -> {"ResearchQuestionGenerator"}
      [] IsStr(signal_phase, "method_contribution") ->
            {"MethodInferrer", "ResultInferrer", "ContributionClaimer"}
      [] OTHER -> {}

\* _run_extraction(session, signal): the branch is chosen by signal["phase"] alone
_run_extraction(session, signal, oc) ==
    LET phase == Get(signal, "phase", JNone)
    IN  CASE IsStr(phase, "tension") -> ExtractTension(session, oc)
          [] IsStr(phase, "positioning") -> ExtractPositioning(session, oc)
          [] IsStr(phase, "question") -> ExtractQuestion(session, signal, oc)
          [] IsStr(phase, "method_contribution") -> ExtractMethodContribution(session, oc)
          [] OTHER -> Extraction(session, << >>, {}, "none")

----------------------------------------------------------------------------
(* Session store                                                           *)

\* an optional value: << >> is "absent", <<x>> is "x"
Absent == << >>
Some(x) == <<x>>

\* json.dumps(session, default=str): every value of a session is a str, an int, a
\* list or a dict with str keys, so the document holds the session's keys and values
JsonDumps(session) == [kind |-> "json", data |-> session]
NoFile == [kind |-> "none", data |-> EmptyDict]
\* a file that write_text truncated and did not finish
CorruptFile == [kind |-> "corrupt", data |-> EmptyDict]

\* how one path.write_text call can end
WriteOutcomes == {"ok", "failed", "truncated"}

\* what _save_session writes to the process's log when its write ends as w: the
\* handler of the exception is `pass`, and nothing else in the function logs
SaveLog(w) == << >>

\* _save_session: best effort, every exception is swallowed
_save_session(files, session, w) ==
    CASE w = "ok" -> [files EXCEPT ![session["id"]] = JsonDumps(session)]
      [] w = "truncated" -> [files EXCEPT ![session["id"]] = CorruptFile]
      [] OTHER -> files

\* _load_sessions: every file that parses is stored under data["id"]
_load_sessions(files) ==
    LET good == {f \in DOMAIN files : files[f].kind = "json"}
        ids == {files[f].data["id"] : f \in good}
    IN  [i \in ids |-> (CHOOSE f \in good : files[f].data["id"] = i)]

LoadedSessions(files) ==
    LET where == _load_sessions(files)
    IN  [i \in DOMAIN where |-> files[where[i]].data]

\* get_session
get_session(store, session_id) ==
    IF session_id \in DOMAIN store THEN Some(store[session_id]) ELSE Absent

----------------------------------------------------------------------------
(* Core engine                                                             *)

\* what a call returns to its caller and what it did on the way
Outcome(found, session, exc, signal, calls, wrote, happened, saves) ==
    [ found |-> found, session |-> session, exc |-> exc, signal |-> signal,
      calls |-> calls, wrote |-> wrote, extraction_happened |-> happened,
      saves |-> saves ]

\* the greeting step with its test left out: every turn goes back to tension_discovery
GreetingAdvanceAlways(session) ==
    [session EXCEPT !["phase"] = "tension_discovery", !["phase_index"] = 1]

\* if session["phase"] == "greeting": advance to tension_discovery
GreetingAdvance(session) ==
    IF session["phase"] = "greeting"
    THEN [session EXCEPT !["phase"] = "tension_discovery", !["phase_index"] = 1]
    ELSE session

\* the advance with next_index = phase_index + 2
AdvancePhaseByTwo(session) ==
    LET next_index == session["phase_index"] + 2
    IN  IF next_index < Len(PHASE_ORDER)
        THEN [session EXCEPT !["phase"] = PhaseAt(next_index),
                             !["phase_index"] = next_index]
        ELSE session

\* the advance with its test left out: the index grows past the last phase
AdvancePhaseUnguarded(session) ==
    LET next_index == session["phase_index"] + 1
    IN  [session EXCEPT !["phase"] = IF next_index < Len(PHASE_ORDER)
                                      THEN PhaseAt(next_index) ELSE @,
                         !["phase_index"] = next_index]

\* next_index = phase_index + 1; if next_index < len(PHASE_ORDER): advance
AdvancePhase(session) ==
    LET next_index == session["phase_index"] + 1
    IN  IF next_index < Len(PHASE_ORDER)
        THEN [session EXCEPT !["phase"] = PhaseAt(next_index),
                             !["phase_index"] = next_index]
        ELSE session

\* the part of process_message before the completion call
BeginTurn(session, user_message) ==
    LET s1 == [session EXCEPT !["raw_input_parts"] = Append(@, user_message)]
        s2 == IF "language" \in DOMAIN s1 THEN s1
              ELSE Put(s1, "language", _detect_language(user_message))
        s3 == GreetingAdvance(s2)
    IN  [s3 EXCEPT !["messages"] = Append(@, Message("user", user_message))]

\* a variant that stores the reply under the user's role
EndTurnAsUser(session, agent_message) ==
    [session EXCEPT !["messages"] = Append(@, Message("user", agent_message))]

\* the part of process_message after the extraction
EndTurn(session, agent_message) ==
    [session EXCEPT !["messages"] = Append(@, Message("assistant", agent_message))]

\* a completion: the request raises, or the reply's content
CompletionFails == [ok |-> FALSE, reply |-> << >>]
CompletionReturns(raw_reply) == [ok |-> TRUE, reply |-> raw_reply]

\* the test of "ready" left out: every object counts as ready
ReadyOfAnyObject(extract_signal) == TRUE

\* extract_signal.get("ready")
ReadyOf(extract_signal) == Truthy(Get(extract_signal.d, "ready", JNone))

\* the part of process_message from the completion call on, s4 being the session
\* object as it is when the call ends
CompleteTurn(s4, completion, oc) ==
    LET raw_reply == completion.reply
        extract_signal == _extract_tag(raw_reply)
        agent_message == _clean_response(raw_reply)
    IN  IF ~completion.ok
        THEN Outcome(TRUE, s4, "CompletionError", JNone, << >>, {}, FALSE, FALSE)
        ELSE IF ~Truthy(extract_signal)
        THEN Outcome(TRUE, EndTurn(s4, agent_message), "none", extract_signal,
                     << >>, {}, FALSE, TRUE)
        ELSE IF extract_signal.t # "obj"
        \* extract_signal.get on a list, a str, a number
        THEN Outcome(TRUE, s4, "AttributeError", extract_signal, << >>, {}, FALSE, FALSE)
        ELSE IF ~ReadyOf(extract_signal)
        THEN Outcome(TRUE, EndTurn(s4, agent_message), "none", extract_signal,
                     << >>, {}, FALSE, TRUE)
        ELSE
        LET x == _run_extraction(s4, extract_signal.d, oc)
        IN  IF x.exc # "none"
            THEN Outcome(TRUE, x.session, x.exc, extract_signal, x.calls, x.wrote,
                         TRUE, FALSE)
            ELSE Outcome(TRUE, EndTurn(AdvancePhase(x.session), agent_message), "none",
                         extract_signal, x.calls, x.wrote, TRUE, TRUE)

\* a variant that puts the session back as it was when the completion call fails
process_message_restoring(store, session_id, user_message, completion, oc) ==
    IF session_id \notin DOMAIN store
    THEN Outcome(FALSE, EmptyDict, "ValueError", JNone, << >>, {}, FALSE, FALSE)
    ELSE IF ~completion.ok
    THEN Outcome(TRUE, store[session_id], "CompletionError", JNone, << >>, {}, FALSE, FALSE)
    ELSE CompleteTurn(BeginTurn(store[session_id], user_message), completion, oc)

process_message(store, session_id, user_message, completion, oc) ==
    IF session_id \notin DOMAIN store
    THEN Outcome(FALSE, EmptyDict, "ValueError", JNone, << >>, {}, FALSE, FALSE)
    ELSE CompleteTurn(BeginTurn(store[session_id], user_message), completion, oc)

update_framing(store, session_id, framing) ==
    IF session_id \notin DOMAIN store
    THEN Outcome(FALSE, EmptyDict, "ValueError", JNone, << >>, {}, FALSE, FALSE)
    ELSE Outcome(TRUE,
                 [store[session_id] EXCEPT !["framing"] = Update(@, framing)],
                 "none", JNone, << >>, DOMAIN framing, FALSE, TRUE)

run_logic_check(store, session_id, oc) ==
    IF session_id \notin DOMAIN store
    THEN Outcome(FALSE, EmptyDict, "ValueError", JNone, << >>, {}, FALSE, FALSE)
    ELSE
    LET session == store[session_id]
        framing == session["framing"]
        c1 == Invoke("CoherenceChecker",
                     [ mode |-> framing["Research Type"],
                       selected_rq |-> framing["RQ"],
                       tension |-> Get(session, "_tension", EmptyDict),
                       contribution |-> framing["Contribution"] ])
        result == run_skill(oc, "CoherenceChecker")
    IN  Outcome(TRUE, session, IF result.ok THEN "none" ELSE "SkillError", JNone,
                <<c1>>, {}, FALSE, FALSE)

----------------------------------------------------------------------------
(* The inputs the environment supplies                                     *)

SessionIds == 1 .. MaxSessions

\* "O"
Owners == { <<79>> }

\* "研究?"
UserMessages == { <<30740, 31350, 63>> }

\* "ok"
Prose == <<111, 107>>

Signal(phase, ready) == JObj([phase |-> JStr(phase), ready |-> JBool(ready)])
SignalWithIndex(idx) ==
    JObj([phase |-> JStr("question"), ready |-> JBool(TRUE), selected_index |-> idx])

\* the signal each phase prompt of chat_prompts.py asks for: its "phase" value
PromptSignal(phase) ==
    CASE phase = "greeting" -> "greeting"
      [] phase = "tension_discovery" -> "tension"
      [] phase = "positioning" -> "positioning"
      [] phase = "question_sharpening" -> "question"
      [] phase = "method_contribution" -> "method_contribution"
      [] OTHER -> ""

\* the selected_index values a reply may carry: 1, 5, -1 and the string "1"
SignalIndexes == { JInt(1), JInt(5), JInt(-1), JStr("1") }

\* the objects a reply to the prompt of `phase` may hold in its extract span: the
\* signal the prompt asks for, and the ones it does not ask for: the tension signal
\* again, ready without a phase, the greeting signal, ready = false
SignalObjects(phase) ==
    (IF PromptSignal(phase) = "" THEN {} ELSE { Signal(PromptSignal(phase), TRUE) })
    \cup (IF phase = "question_sharpening"
          THEN { SignalWithIndex(i) : i \in SignalIndexes } ELSE {})
    \cup { Signal("tension", TRUE),
           Signal("tension", FALSE),
           JObj([ready |-> JBool(TRUE)]),
           JObj([phase |-> JStr("greeting"), ready |-> JBool(TRUE), owner |-> JStr("O")]) }

\* JSON that is not an object: a list, a string
SignalNonObjects == { JList(1), JStr("ready") }

\* response.choices[0].message.content of a reply to the prompt of `phase`
RawReplies(phase) ==
    { <<TextSeg(Prose)>>, <<TextSeg(Prose), BadExtractSeg>> }
    \cup { <<TextSeg(Prose \o SPACE), ExtractSeg(j)>> :
             j \in SignalObjects(phase) \cup SignalNonObjects }

Completions(phase) ==
    { CompletionFails } \cup { CompletionReturns(r) : r \in RawReplies(phase) }

\* "C", "d", "b", "g", "p", "m", "r", "c"; questions "Q1", "Q2", "Q3"
Question(n) == [k \in {"question", "type"} |-> IF k = "question" THEN <<81, 48 + n>> ELSE <<84>>]

ModeOutcomes == { Raises, Returns(EmptyDict), Returns([mode |-> <<67>>]) }
TensionOutcomes ==
    { Raises,
      Returns([dominant_assumption |-> <<100>>, blind_spot |-> <<98>>, core_gap |-> <<103>>]) }
PositionOutcomes == { Raises, Returns([research_position |-> <<112>>]) }
QuestionOutcomes ==
    { Raises,
      Returns([research_questions |-> << >>]),
      Returns([research_questions |-> << Question(1), Question(2), Question(3) >>]) }
MethodOutcomes == { Raises, Returns([method |-> <<109>>]) }
ResultOutcomes == { Raises, Returns([result |-> <<114>>]) }
ContributionOutcomes == { Raises, Returns([contribution |-> <<99>>]) }
CoherenceOutcomes == { Raises, Returns([alignment_assessment |-> <<97>>]) }

NoSkills == [k \in {} |-> Raises]

\* for each branch of _run_extraction, what its skills may answer
OutcomeChoices(signal_phase) ==
    CASE IsStr(signal_phase, "tension") ->
            { ("EpistemicModeClassifier" :> a) @@ ("TensionExtractor" :> b) :
                a \in ModeOutcomes, b \in TensionOutcomes }
      [] IsStr(signal_phase, "positioning") ->
            { ("ResearchPositionBuilder" :> a) : a \in PositionOutcomes }
      [] IsStr(signal_phase, "question") ->
            { ("ResearchQuestionGenerator" :> a) : a \in QuestionOutcomes }
      [] IsStr(signal_phase, "method_contribution") ->
            { ("MethodInferrer" :> a) @@ ("ResultInferrer" :> b)
                @@ ("ContributionClaimer" :> c) :
                a \in MethodOutcomes, b \in ResultOutcomes, c \in ContributionOutcomes }
      [] OTHER -> { NoSkills }

\* signal.get("phase") of a reply, None when the reply holds no object
SignalPhase(completion) ==
    LET j == _extract_tag(completion.reply)
    IN  IF completion.ok /\ j.t = "obj" THEN Get(j.d, "phase", JNone) ELSE JNone

\* the dicts notion_sync passes to update_framing: all ten fields of a page, here the
\* page written from `framing` with its RQ edited to "N"
FramingInputs(framing) == { [framing EXCEPT !["RQ"] = <<78>>] }

----------------------------------------------------------------------------
(* The batch pipeline (framing_agent.py, research_framing_agent.py)        *)

Orientations == {"exploratory", "critical", "problem_solving", "constructive"}

\* INITIAL_STATE; a weight w stands for w / 2 (0, 0.5, 1.0)
INITIAL_STATE ==
    [ raw_input |-> EmptyText,
      mode |-> EmptyText,
      tension |-> [dominant_assumption |-> EmptyText, blind_spot |-> EmptyText,
                   core_gap |-> EmptyText],
      epistemic_profile |-> [o \in Orientations |-> 0],
      keyword_map |-> [o \in Orientations |-> << >>],
      keyword_roles |-> EmptyDict,
      rule_engine_output |-> [dominant_orientation |-> EmptyText, rq_templates |-> << >>,
                              method_bias |-> << >>, contribution_bias |-> << >>,
                              logic_pattern |-> EmptyText],
      research_position |-> EmptyText,
      research_questions |-> << >>,
      selected_rq |-> EmptyText,
      method |-> EmptyText,
      result_type |-> EmptyText,
      contribution |-> EmptyText,
      coherence_notes |-> [logical_gaps |-> << >>, scope_issues |-> << >>,
                           alignment_assessment |-> EmptyText],
      abstract_en |-> EmptyText,
      abstract_zh |-> EmptyText ]

\* what one step leaves: the state, and the exception that ended it ("none": it went
\* through). result[key] of a missing key raises KeyError.
StepResult(state, exc) == [state |-> state, exc |-> exc]

\* for k, v in result["epistemic_profile"].items():
\*     if k in state["epistemic_profile"]: state[...][k] = max(state[...][k], v)
MergeProfile(profile, proposed) ==
    [k \in DOMAIN profile |->
        IF k \in DOMAIN proposed
        THEN (IF profile[k] >= proposed[k] THEN profile[k] ELSE proposed[k])
        ELSE profile[k]]

\* the elements of a list
Elements(list) == {list[i] : i \in 1 .. Len(list)}

\* list(a_set): the elements of the set, each once, in an order the interpreter picks
ListsOf(S) ==
    {f \in [1 .. Cardinality(S) -> S] : \A i, j \in 1 .. Cardinality(S) : f[i] = f[j] => i = j}

\* for k, v in result["keyword_map"].items():
\*     if k in state["keyword_map"]:
\*         existing = set(state["keyword_map"][k]); existing.update(v)
\*         state["keyword_map"][k] = list(existing)
\* every keyword_map the merge can leave
MergedKeywordMaps(keyword_map, proposed) ==
    LET choices(k) == IF k \in DOMAIN proposed
                      THEN ListsOf(Elements(keyword_map[k]) \cup Elements(proposed[k]))
                      ELSE { keyword_map[k] }
    IN  { m \in [DOMAIN keyword_map -> UNION {choices(k) : k \in DOMAIN keyword_map}] :
            \A k \in DOMAIN keyword_map : m[k] \in choices(k) }

\* steps 1 of run_pipeline and of update_keywords: NotionKeywordSync
KeywordSyncStep(state, result) ==
    IF ~result.ok THEN StepResult(state, "SkillError")
    ELSE StepResult(
           [state EXCEPT
              !.keyword_map = Get(result.out, "keyword_map", state.keyword_map),
              !.keyword_roles = Get(result.out, "keyword_roles", EmptyDict),
              !.epistemic_profile = Get(result.out, "epistemic_profile",
                                        state.epistemic_profile)],
           "none")

\* step 2 of run_pipeline: EpistemicModeClassifier and the merge of what it proposes;
\* `merged` is the keyword_map the merge leaves
ModeClassifierStep(state, result, merged) ==
    IF ~result.ok THEN StepResult(state, "SkillError")
    ELSE IF "mode" \notin DOMAIN result.out THEN StepResult(state, "KeyError")
    ELSE StepResult(
           [state EXCEPT
              !.mode = result.out["mode"],
              !.epistemic_profile =
                  IF "epistemic_profile" \in DOMAIN result.out
                  THEN MergeProfile(@, result.out["epistemic_profile"]) ELSE @,
              !.keyword_map = merged],
           "none")

\* the keyword_maps step 2 can leave for this result
MergeChoices(state, result) ==
    IF result.ok /\ "keyword_map" \in DOMAIN result.out
    THEN MergedKeywordMaps(state.keyword_map, result.out["keyword_map"])
    ELSE { state.keyword_map }

\* steps 3 of run_pipeline and 2 of update_keywords: EpistemicRuleEngine
RuleEngineStep(state, result) ==
    IF ~result.ok THEN StepResult(state, "SkillError")
    ELSE StepResult(
           [state EXCEPT !.rule_engine_output =
              [ dominant_orientation |-> Get(result.out, "dominant_orientation", EmptyText),
                rq_templates |-> Get(result.out, "rq_templates", << >>),
                method_bias |-> Get(result.out, "method_bias", << >>),
                contribution_bias |-> Get(result.out, "contribution_bias", << >>),
                logic_pattern |-> Get(result.out, "logic_pattern", EmptyText) ]],
           "none")

\* result[k] for every k of `keys` goes through
HasKeys(result, keys) == keys \subseteq DOMAIN result.out

\* step 4 of run_pipeline: TensionExtractor
TensionStep(state, result) ==
    IF ~result.ok THEN StepResult(state, "SkillError")
    ELSE IF ~HasKeys(result, {"dominant_assumption", "blind_spot", "core_gap"})
    THEN StepResult(state, "KeyError")
    ELSE StepResult(
           [state EXCEPT !.tension =
              [ dominant_assumption |-> result.out["dominant_assumption"],
                blind_spot |-> result.out["blind_spot"],
                core_gap |-> result.out["core_gap"] ]],
           "none")

\* step 5 of run_pipeline: ResearchPositionBuilder
PositionStep(state, result) ==
    IF ~result.ok THEN StepResult(state, "SkillError")
    ELSE IF ~HasKeys(result, {"research_position"}) THEN StepResult(state, "KeyError")
    ELSE StepResult([state EXCEPT !.research_position = result.out["research_position"]],
                    "none")

\* the auto-selection taking the last question
AutoSelectLast(state) ==
    IF state.research_questions # << >>
    THEN [state EXCEPT !.selected_rq =
            state.research_questions[Len(state.research_questions)]["question"]]
    ELSE state

\* if state["research_questions"]:
\*     state["selected_rq"] = state["research_questions"][0]["question"]
AutoSelect(state) ==
    IF state.research_questions # << >>
    THEN [state EXCEPT !.selected_rq = state.research_questions[1]["question"]]
    ELSE state

\* step 6 of run_pipeline: ResearchQuestionGenerator and the auto-selection
QuestionStep(state, result) ==
    IF ~result.ok THEN StepResult(state, "SkillError")
    ELSE IF ~HasKeys(result, {"research_questions"}) THEN StepResult(state, "KeyError")
    ELSE LET s1 == [state EXCEPT !.research_questions = result.out["research_questions"]]
         IN  IF /\ s1.research_questions # << >>
                /\ "question" \notin DOMAIN s1.research_questions[1]
             THEN StepResult(s1, "KeyError")
             ELSE StepResult(AutoSelect(s1), "none")

\* step 7 of run_pipeline: MethodLogicAligner
MethodStep(state, result) ==
    IF ~result.ok THEN StepResult(state, "SkillError")
    ELSE StepResult([state EXCEPT !.method = Get(result.out, "method", EmptyText)], "none")

\* step 8 of run_pipeline: ContributionClaimer; result_type is assigned before
\* result["contribution"] is read
ContributionStep(state, result) ==
    IF ~result.ok THEN StepResult(state, "SkillError")
    ELSE IF ~HasKeys(result, {"result_type"}) THEN StepResult(state, "KeyError")
    ELSE LET s1 == [state EXCEPT !.result_type = result.out["result_type"]]
         IN  IF ~HasKeys(result, {"contribution"}) THEN StepResult(s1, "KeyError")
             ELSE StepResult([s1 EXCEPT !.contribution = result.out["contribution"]],
                             "none")

\* a variant of step 9 that also drops the selected question
CoherenceStepRewriting(state, result) ==
    IF ~result.ok THEN StepResult(state, "SkillError")
    ELSE IF ~HasKeys(result, {"logical_gaps", "scope_issues", "alignment_assessment"})
    THEN StepResult(state, "KeyError")
    ELSE StepResult(
           [state EXCEPT !.selected_rq = EmptyText,
                         !.coherence_notes =
              [ logical_gaps |-> result.out["logical_gaps"],
                scope_issues |-> result.out["scope_issues"],
                alignment_assessment |-> result.out["alignment_assessment"] ]],
           "none")

\* step 9 of run_pipeline: CoherenceChecker
CoherenceStep(state, result) ==
    IF ~result.ok THEN StepResult(state, "SkillError")
    ELSE IF ~HasKeys(result, {"logical_gaps", "scope_issues", "alignment_assessment"})
    THEN StepResult(state, "KeyError")
    ELSE StepResult(
           [state EXCEPT !.coherence_notes =
              [ logical_gaps |-> result.out["logical_gaps"],
                scope_issues |-> result.out["scope_issues"],
                alignment_assessment |-> result.out["alignment_assessment"] ]],
           "none")

\* step 10 of run_pipeline: AbstractGenerator
AbstractStep(state, result) ==
    IF ~result.ok THEN StepResult(state, "SkillError")
    ELSE StepResult(
           [state EXCEPT !.abstract_en = Get(result.out, "abstract_en", EmptyText),
                         !.abstract_zh = Get(result.out, "abstract_zh", EmptyText)],
           "none")

\* the ten steps of run_pipeline, in the order the code runs them
PIPELINE_STEPS ==
    << "NotionKeywordSync", "EpistemicModeClassifier", "EpistemicRuleEngine",
       "TensionExtractor", "ResearchPositionBuilder", "ResearchQuestionGenerator",
       "MethodLogicAligner", "ContributionClaimer", "CoherenceChecker",
       "AbstractGenerator" >>

\* the input dict run_pipeline passes to its step n, given the state before the step
PipelineInput(n, state, keywords) ==
    LET reo == state.rule_engine_output
    IN  CASE n = 1 -> [keywords |-> keywords]
          [] n = 2 -> [raw_input |-> state.raw_input]
          [] n = 3 -> [epistemic_profile |-> state.epistemic_profile,
                       keyword_map |-> state.keyword_map,
                       keyword_roles |-> state.keyword_roles]
          [] n = 4 -> [raw_input |-> state.raw_input, keyword_map |-> state.keyword_map]
          [] n = 5 -> [mode |-> state.mode, tension |-> state.tension,
                       keyword_map |-> state.keyword_map,
                       dominant_orientation |-> reo.dominant_orientation]
          [] n = 6 -> [research_position |-> state.research_position,
                       rq_templates |-> reo.rq_templates,
                       logic_pattern |-> reo.logic_pattern,
                       dominant_orientation |-> reo.dominant_orientation,
                       keyword_map |-> state.keyword_map]
          [] n = 7 -> [selected_rq |-> state.selected_rq,
                       method_bias |-> reo.method_bias,
                       contribution_bias |-> reo.contribution_bias,
                       dominant_orientation |-> reo.dominant_orientation,
                       logic_pattern |-> reo.logic_pattern,
                       keyword_map |-> state.keyword_map,
                       tension |-> state.tension]
          [] n = 8 -> [selected_rq |-> state.selected_rq, mode |-> state.mode,
                       tension |-> state.tension, keyword_map |-> state.keyword_map,
                       contribution_bias |-> reo.contribution_bias]
          [] n = 9 -> [mode |-> state.mode, selected_rq |-> state.selected_rq,
                       tension |-> state.tension, contribution |-> state.contribution,
                       method |-> state.method, keyword_map |-> state.keyword_map]
          [] OTHER -> [background |-> state.tension.dominant_assumption \o SPACE
                                      \o state.tension.blind_spot \o SPACE
                                      \o state.tension.core_gap,
                       purpose |-> state.research_position,
                       method |-> state.method,
                       result |-> state.result_type,
                       contribution |-> state.contribution,
                       epistemic_profile |-> state.epistemic_profile,
                       rule_engine_output |-> state.rule_engine_output,
                       keyword_map |-> state.keyword_map]

\* what step n of run_pipeline does to the state, given what its skill answered
PipelineStep(n, state, result, merged) ==
    CASE n = 1 -> KeywordSyncStep(state, result)
      [] n = 2 -> ModeClassifierStep(state, result, merged)
      [] n = 3 -> RuleEngineStep(state, result)
      [] n = 4 -> TensionStep(state, result)
      [] n = 5 -> PositionStep(state, result)
      [] n = 6 -> QuestionStep(state, result)
      [] n = 7 -> MethodStep(state, result)
      [] n = 8 -> ContributionStep(state, result)
      [] n = 9 -> CoherenceStep(state, result)
      [] OTHER -> AbstractStep(state, result)

\* the two steps of update_keywords
\* a variant that goes on to the tension extraction
UPDATE_STEPS_CASCADING ==
    << "NotionKeywordSync", "EpistemicRuleEngine", "TensionExtractor" >>

UPDATE_STEPS == << "NotionKeywordSync", "EpistemicRuleEngine" >>

UpdateInput(n, state, keywords) ==
    IF n = 1 THEN [keywords |-> keywords]
    ELSE [epistemic_profile |-> state.epistemic_profile,
          keyword_map |-> state.keyword_map,
          keyword_roles |-> state.keyword_roles]

\* update_keywords that also drops the selected question
UpdateStepClearing(n, state, result) ==
    IF n = 1
    THEN LET r == KeywordSyncStep(state, result)
         IN  StepResult([r.state EXCEPT !.selected_rq = EmptyText], r.exc)
    ELSE RuleEngineStep(state, result)

\* update_keywords that merges the new profile into the one the state holds, keeping
\* the larger weight
UpdateStepMerging(n, state, result) ==
    IF n = 1
    THEN LET r == KeywordSyncStep(state, result)
         IN  StepResult([r.state EXCEPT !.epistemic_profile =
                                          MergeProfile(state.epistemic_profile, @)],
                        r.exc)
    ELSE RuleEngineStep(state, result)

UpdateStep(n, state, result) ==
    IF n = 1 THEN KeywordSyncStep(state, result) ELSE RuleEngineStep(state, result)

\* the locals of run_notion_pipeline before its first step
NotionLocals(raw_input, owner) ==
    [ raw_input |-> raw_input, owner |-> owner, research_type |-> EmptyText,
      tension |-> EmptyDict, background |-> EmptyText, purpose |-> EmptyText,
      research_questions |-> << >>, selected_rq |-> EmptyText, method |-> EmptyText,
      result |-> EmptyText, contribution |-> EmptyText ]

\* "Dominant assumption: ", " Blind spot: ", " Core gap: "
DominantAssumptionLabel ==
    <<68, 111, 109, 105, 110, 97, 110, 116, 32, 97, 115, 115, 117, 109, 112, 116, 105,
      111, 110, 58, 32>>
BlindSpotLabel == <<32, 66, 108, 105, 110, 100, 32, 115, 112, 111, 116, 58, 32>>
CoreGapLabel == <<32, 67, 111, 114, 101, 32, 103, 97, 112, 58, 32>>

\* f"Dominant assumption: {...} Blind spot: {...} Core gap: {...}"
BackgroundOf(tension) ==
    DominantAssumptionLabel \o tension["dominant_assumption"]
      \o BlindSpotLabel \o tension["blind_spot"]
      \o CoreGapLabel \o tension["core_gap"]

\* "..."
Ellipsis == <<46, 46, 46>>

\* project_name = raw_input.strip().rstrip("?!.").strip()
\* if len(project_name) > 100: project_name = project_name[:97] + "..."
NotionProjectName(raw_input) ==
    LET project_name == Strip(RStripChars(Strip(raw_input), TrailingPunct))
    IN  IF Len(project_name) > 100
        THEN SubSeq(project_name, 1, 97) \o Ellipsis
        ELSE project_name

\* the skills of run_notion_pipeline, in the order the code runs them
NOTION_STEPS ==
    << "EpistemicModeClassifier", "TensionExtractor", "ResearchPositionBuilder",
       "ResearchQuestionGenerator", "MethodInferrer", "ResultInferrer",
       "ContributionClaimer" >>

\* the input dict run_notion_pipeline passes to its skill n
NotionInput(n, locals) ==
    CASE n = 1 -> [raw_input |-> locals.raw_input]
      [] n = 2 -> [raw_input |-> locals.raw_input]
      [] n = 3 -> [mode |-> locals.research_type, tension |-> locals.tension]
      [] n = 4 -> [research_position |-> locals.purpose, mode |-> locals.research_type]
      [] n = 5 -> [mode |-> locals.research_type, selected_rq |-> locals.selected_rq]
      [] n = 6 -> [mode |-> locals.research_type, selected_rq |-> locals.selected_rq,
                   method |-> locals.method]
      [] OTHER -> [selected_rq |-> locals.selected_rq, mode |-> locals.research_type,
                   tension |-> locals.tension]

\* selected_rq = research_questions[0]["question"]
NotionSelect(locals) ==
    IF locals.research_questions = << >> THEN StepResult(locals, "IndexError")
    ELSE IF "question" \notin DOMAIN locals.research_questions[1]
    THEN StepResult(locals, "KeyError")
    ELSE StepResult([locals EXCEPT !.selected_rq = locals.research_questions[1]["question"]],
                    "none")

\* what skill n of run_notion_pipeline and the statements behind it do to the locals
NotionStep(n, locals, result) ==
    IF ~result.ok THEN StepResult(locals, "SkillError")
    ELSE CASE n = 1 ->
                IF ~HasKeys(result, {"mode"}) THEN StepResult(locals, "KeyError")
                ELSE StepResult([locals EXCEPT !.research_type = result.out["mode"]], "none")
           [] n = 2 ->
                IF ~HasKeys(result, {"dominant_assumption", "blind_spot", "core_gap"})
                THEN StepResult([locals EXCEPT !.tension = result.out], "KeyError")
                ELSE StepResult([locals EXCEPT !.tension = result.out,
                                               !.background = BackgroundOf(result.out)],
                                "none")
           [] n = 3 ->
                IF ~HasKeys(result, {"research_position"})
                THEN StepResult(locals, "KeyError")
                ELSE StepResult([locals EXCEPT !.purpose = result.out["research_position"]],
                                "none")
           [] n = 4 ->
                IF ~HasKeys(result, {"research_questions"})
                THEN StepResult(locals, "KeyError")
                ELSE NotionSelect([locals EXCEPT !.research_questions =
                                                     result.out["research_questions"]])
           [] n = 5 ->
                IF ~HasKeys(result, {"method"}) THEN StepResult(locals, "KeyError")
                ELSE StepResult([locals EXCEPT !.method = result.out["method"]], "none")
           [] n = 6 ->
                IF ~HasKeys(result, {"result"}) THEN StepResult(locals, "KeyError")
                ELSE StepResult([locals EXCEPT !.result = result.out["result"]], "none")
           [] OTHER ->
                IF ~HasKeys(result, {"contribution"}) THEN StepResult(locals, "KeyError")
                ELSE StepResult([locals EXCEPT !.contribution = result.out["contribution"]],
                                "none")

\* notion_output; `year` is str(datetime.now().year)
NotionOutput(locals, year) ==
    [k \in {"Project Name", "Owner", "Research Type", "Background", "Purpose", "RQ",
            "Method", "Result", "Contribution", "Year"} |->
        CASE k = "Project Name" -> NotionProjectName(locals.raw_input)
          [] k = "Owner" -> locals.owner
          [] k = "Research Type" -> locals.research_type
          [] k = "Background" -> locals.background
          [] k = "Purpose" -> locals.purpose
          [] k = "RQ" -> locals.selected_rq
          [] k = "Method" -> locals.method
          [] k = "Result" -> locals.result
          [] k = "Contribution" -> locals.contribution
          [] OTHER -> year]

\* "r" and " r?"
RawInputs == { <<114>>, <<32, 114, 63>> }

\* the keywords argument: None or [] (both give kw_input = []), or one keyword object
KeywordLists == { << >>, << [term |-> "a", role |-> "core"] >> }

\* "2026"
Years == { <<50, 48, 50, 54>> }

\* what NotionKeywordSync may answer: nothing of use, a profile and a map over the four
\* orientations, a profile and a map that leave orientations out
SyncOutcomes ==
    { Raises,
      Returns(EmptyDict),
      Returns([ keyword_map |-> [exploratory |-> << >>, critical |-> <<"a", "b">>,
                                 problem_solving |-> <<"p", "p">>, constructive |-> << >>],
                keyword_roles |-> [a |-> "core"],
                epistemic_profile |-> [exploratory |-> 2, critical |-> 1,
                                       problem_solving |-> 0, constructive |-> 0] ]),
      Returns([ keyword_map |-> [critical |-> <<"a">>],
                epistemic_profile |-> [critical |-> 1] ]) }

\* what EpistemicModeClassifier may answer to run_pipeline
ClassifierOutcomes ==
    ModeOutcomes
    \cup { Returns([ mode |-> <<67>>,
                     epistemic_profile |-> [exploratory |-> 1, critical |-> 2, other |-> 2],
                     keyword_map |-> [exploratory |-> <<"c">>, critical |-> <<"b", "c">>,
                                      other |-> <<"z">>] ]) }

RuleEngineOutcomes ==
    { Raises,
      Returns(EmptyDict),
      Returns([ dominant_orientation |-> <<99>>, rq_templates |-> <<"t">>,
                method_bias |-> <<"m">>, contribution_bias |-> <<"c">>,
                logic_pattern |-> <<108>> ]) }

AlignerOutcomes == MethodOutcomes \cup { Returns(EmptyDict) }

ClaimerOutcomes ==
    ContributionOutcomes
    \cup { Returns([result_type |-> <<116>>, contribution |-> <<99>>]) }

CheckerOutcomes ==
    CoherenceOutcomes
    \cup { Returns([logical_gaps |-> << >>, scope_issues |-> << >>,
                    alignment_assessment |-> <<97>>]) }

AbstractOutcomes ==
    { Raises, Returns(EmptyDict),
      Returns([abstract_en |-> <<101>>, abstract_zh |-> <<25688>>]) }

GeneratorOutcomes == QuestionOutcomes \cup { Returns(EmptyDict) }

\* what the skill of step n may answer
RunPipelineOutcomes(n) ==
    CASE n = 1 -> SyncOutcomes
      [] n = 2 -> ClassifierOutcomes
      [] n = 3 -> RuleEngineOutcomes
      [] n = 4 -> TensionOutcomes
      [] n = 5 -> PositionOutcomes
      [] n = 6 -> GeneratorOutcomes
      [] n = 7 -> AlignerOutcomes
      [] n = 8 -> ClaimerOutcomes
      [] n = 9 -> CheckerOutcomes
      [] OTHER -> AbstractOutcomes

UpdateOutcomes(n) == IF n = 1 THEN SyncOutcomes ELSE RuleEngineOutcomes

RunNotionOutcomes(n) ==
    CASE n = 1 -> ModeOutcomes
      [] n = 2 -> TensionOutcomes
      [] n = 3 -> PositionOutcomes
      [] n = 4 -> GeneratorOutcomes
      [] n = 5 -> MethodOutcomes
      [] n = 6 -> ResultOutcomes
      [] OTHER -> ContributionOutcomes

\* what the caller of a pipeline receives when a step fails: the exception as the
\* completion client, json.loads or the dict lookup raised it. run_skill and call_llm
\* have no handler, and the endpoints pass on str(e), so the failure carries the
\* exception's type and no step
FailureOf(exc) == [type |-> exc, step |-> Absent]

\* a call of run_pipeline, update_keywords or run_notion_pipeline: the function, how
\* many of its steps have run, whether it is running, has returned or has raised, its
\* state dict (the locals, for run_notion_pipeline), that state when the call began,
\* the keywords argument, the skills called with their inputs, the exception, what the
\* keyword sync and the classifier of the call answered, what the skill of the last
\* step answered, the dict returned
IdlePipe ==
    [ op |-> "none", pc |-> 0, status |-> "idle", state |-> INITIAL_STATE,
      before |-> INITIAL_STATE, keywords |-> << >>, calls |-> << >>, exc |-> "none",
      sync |-> EmptyDict, proposed |-> EmptyDict, answer |-> Raises,
      output |-> EmptyDict ]

----------------------------------------------------------------------------
(* The reply as text: _clean_response character by character              *)

\* "<extract>" and "</extract>"
OPEN_TAG == <<60, 101, 120, 116, 114, 97, 99, 116, 62>>
CLOSE_TAG == <<60, 47, 101, 120, 116, 114, 97, 99, 116, 62>>

\* text[i:].startswith(pattern), i counted from 1
StartsAt(text, i, pattern) ==
    /\ i + Len(pattern) - 1 <= Len(text)
    /\ SubSeq(text, i, i + Len(pattern) - 1) = pattern

\* the first position >= i where pattern starts, 0 when there is none
FindFrom(text, pattern, i) ==
    IF \E j \in i .. Len(text) : StartsAt(text, j, pattern)
    THEN CHOOSE j \in i .. Len(text) :
           /\ StartsAt(text, j, pattern)
           /\ \A k \in i .. j - 1 : ~StartsAt(text, k, pattern)
    ELSE 0

\* re.search(r"<extract>.*?</extract>", text, re.DOTALL) finds a span
ContainsSpan(text) ==
    LET o == FindFrom(text, OPEN_TAG, 1)
    IN  o # 0 /\ FindFrom(text, CLOSE_TAG, o + Len(OPEN_TAG)) # 0

RECURSIVE SubSpans(_, _)
\* re.sub(r"\s*<extract>.*?</extract>\s*", "", text, flags=re.DOTALL) from position p
\* on: the leftmost match begins at the whitespace before the first "<extract>" that
\* has a "</extract>" behind it, ends after the whitespace behind the nearest
\* "</extract>", and the search goes on behind the match
SubSpans(text, p) ==
    LET o == FindFrom(text, OPEN_TAG, p)
        c == IF o = 0 THEN 0 ELSE FindFrom(text, CLOSE_TAG, o + Len(OPEN_TAG))
    IN  IF c = 0 THEN SubSeq(text, p, Len(text))
        ELSE LET s == CHOOSE j \in p .. o :
                        /\ \A k \in j .. o - 1 : text[k] \in Whitespace
                        /\ j > p => text[j - 1] \notin Whitespace
                 after == c + Len(CLOSE_TAG)
                 e == CHOOSE j \in after .. Len(text) + 1 :
                        /\ \A k \in after .. j - 1 : text[k] \in Whitespace
                        /\ j <= Len(text) => text[j] \notin Whitespace
             IN  SubSeq(text, p, s - 1) \o SubSpans(text, e)

\* _clean_response(text) on the characters of the reply
CleanText(text) == Strip(SubSpans(text, 1))

\* the pieces a reply is put together from: the two tags, the halves "<ext" and
\* "ract>" of a tag, "a", " "
ReplyPieces ==
    { OPEN_TAG, CLOSE_TAG, <<60, 101, 120, 116>>, <<114, 97, 99, 116, 62>>, <<97>>, SPACE }

\* a reply being composed, and the agent_message made of it once process_message has
\* cleaned it
ReplyText(raw, pieces, cleaned, agent_message) ==
    [raw |-> raw, pieces |-> pieces, cleaned |-> cleaned, agent_message |-> agent_message]
NoReply == ReplyText(EmptyText, 0, FALSE, EmptyText)

----------------------------------------------------------------------------
(* The record store (notion_writer.py) and the sync path (server.py)       *)

\* value[:2000], the cap write_to_notion puts on a text
NOTION_TEXT_CAP == 2000

\* _rich_text(value), _title(value), _select(value): the property values sent
_rich_text(value) ==
    [rich_text |-> << [type |-> "text", text |-> [content |-> Truncate(value, NOTION_TEXT_CAP)]] >>]
_title(value) ==
    [title |-> << [type |-> "text", text |-> [content |-> Truncate(value, NOTION_TEXT_CAP)]] >>]
_select(value) == [select |-> [name |-> value]]

\* the properties write_to_notion sends to pages.create
write_to_notion(framing_output) ==
    [f \in FieldNames |->
        CASE f = "Project Name" -> _title(Get(framing_output, f, EmptyText))
          [] f = "Research Type" -> _select(Get(framing_output, f, EmptyText))
          [] OTHER -> _rich_text(Get(framing_output, f, EmptyText))]

\* the record store: a page created with `properties`, as pages.retrieve returns it.
\* Each property comes back under its type, a text object as an item whose plain_text
\* is the content sent, a select as the option named
StoredPage(properties) ==
    [f \in DOMAIN properties |->
        LET sent == properties[f]
            Items(objects) == [i \in 1 .. Len(objects) |->
                                 [plain_text |-> objects[i].text.content]]
        IN  CASE "title" \in DOMAIN sent ->
                   [type |-> "title", title |-> Items(sent.title)]
              [] "rich_text" \in DOMAIN sent ->
                   [type |-> "rich_text", rich_text |-> Items(sent.rich_text)]
              [] OTHER -> [type |-> "select", select |-> sent.select]]

\* the loop of notion_sync over the ten field names: synced_framing
SyncedFraming(props) ==
    [field_name \in FieldNames |->
        LET prop == Get(props, field_name, EmptyDict)
            prop_type == Get(prop, "type", "")
        IN  CASE prop_type = "title" ->
                   IF prop.title # << >> THEN prop.title[1].plain_text ELSE EmptyText
              [] prop_type = "rich_text" ->
                   IF prop.rich_text # << >> THEN prop.rich_text[1].plain_text
                   ELSE EmptyText
              [] prop_type = "select" -> prop.select.name
              [] OTHER -> EmptyText]

\* a text one character longer than the cap: "aa...ab"
LongText == [i \in 1 .. NOTION_TEXT_CAP + 1 |-> IF i = NOTION_TEXT_CAP + 1 THEN 98 ELSE 97]

\* the values a field of a record takes: "", "a", the long text
FieldValues == { EmptyText, <<97>>, LongText }

\* the framing records written: three fields range over the values, the others hold
\* "a" or are all empty
Records ==
    { [f \in FieldNames |->
          CASE f = "Project Name" -> a
            [] f = "Research Type" -> b
            [] f = "Background" -> c
            [] OTHER -> d] :
        a \in FieldValues, b \in FieldValues, c \in FieldValues,
        d \in { EmptyText, <<97>> } }

\* a framing record, the page the store holds for it, the fields synced back
RecordState(framing, page, synced) == [framing |-> framing, page |-> page, synced |-> synced]
NoRecord == RecordState(Absent, Absent, Absent)

----------------------------------------------------------------------------
(* The calls, one at a time                                                *)

\* what a call was given and what it did: the completion it received, the exception
\* it raised ("none" when it returned), the skills it called, the Artifact fields it
\* assigned, how its write of the session file ended ("none" when it made none), the
\* records it added to the log
Observation(op, sid, completion, r, write) ==
    [ op |-> op, sid |-> sid, completion |-> completion, exc |-> r.exc,
      signal |-> r.signal, calls |-> r.calls, wrote |-> r.wrote,
      extraction_happened |-> r.extraction_happened, write |-> write,
      logged |-> IF write = "none" THEN << >> ELSE SaveLog(write) ]

\* the threads of the pool that runs the endpoints; a thread is idle, or inside the
\* completion call of process_message ("called"), or has ended its request ("done")
Threads == 1 .. MaxThreads
IdleThread == [pc |-> "idle", sid |-> 0, user_message |-> EmptyText, prompt |-> "greeting"]

\* a response of the server: the endpoint, the session id of the request, whether that
\* id was in the store, whether the request passed the endpoint's own validation, how
\* the record store answered ("none" when it was not called), the status code
Response(endpoint, sid, known, valid, upstream, status) ==
    [ endpoint |-> endpoint, sid |-> sid, known |-> known, valid |-> valid,
      upstream |-> upstream, status |-> status ]
NoResponse == Response("", 0, FALSE, FALSE, "none", 0)

NoOutcome == Outcome(FALSE, EmptyDict, "none", JNone, << >>, {}, FALSE, FALSE)

Init ==
    /\ sessions = << >>
    /\ disk = [i \in SessionIds |-> NoFile]
    /\ issued = 0
    /\ last = Observation("init", 0, CompletionFails, NoOutcome, "none")
    /\ hist = [i \in SessionIds |-> [ready |-> FALSE, updated |-> FALSE, degraded |-> FALSE,
                                    matched |-> TRUE, steps |-> << >>]]
    /\ completed = [i \in SessionIds |-> Absent]
    /\ committed = [i \in SessionIds |-> Absent]
    /\ threads = [t \in Threads |-> IdleThread]
    /\ window = [base |-> Absent, calls |-> << >>, requests |-> 0]
    /\ response = NoResponse
    /\ pipe = IdlePipe
    /\ reply = NoReply
    /\ record = NoRecord

\* the write a call that reaches _save_session may see, W being what the disk can do
WritesOf(r, W) == IF r.saves THEN W ELSE {"none"}

\* what a finished call leaves in the store and on disk
Finish(op, sid, completion, r, w) ==
    /\ sessions' = IF r.found THEN (sid :> r.session) @@ sessions ELSE sessions
    /\ disk' = IF r.saves THEN _save_session(disk, r.session, w) ELSE disk
    /\ last' = Observation(op, sid, completion, r, w)
    /\ UNCHANGED <<threads, window, pipe, reply, record>>

\* the record of what each session was when a call last returned and when a write
\* last succeeded
Track(sid, r, w) ==
    /\ completed' = IF r.found /\ r.exc = "none"
                    THEN [completed EXCEPT ![sid] = Some(r.session)]
                    ELSE completed
    /\ committed' = CASE r.saves /\ w = "ok" -> [committed EXCEPT ![sid] = Some(r.session)]
                      [] r.saves /\ w = "truncated" -> [committed EXCEPT ![sid] = Absent]
                      [] OTHER -> committed

\* the skills a session's turns have invoked, kept for as long as every turn returned
\* and every extraction was run for a ready signal naming the phase whose prompt was
\* sent; after any other turn the session counts as not driven by matching signals
Drive(h, sid, prompt_phase, r) ==
    IF ~r.found \/ ~h[sid].matched THEN h
    ELSE IF r.exc = "none" /\ ~r.extraction_happened THEN h
    ELSE IF /\ r.exc = "none"
            /\ r.signal.t = "obj"
            /\ Get(r.signal.d, "ready", JNone) = JBool(TRUE)
            /\ Get(r.signal.d, "phase", JNone) = JStr(PromptSignal(prompt_phase))
    THEN [h EXCEPT ![sid].steps = @ \o [i \in 1 .. Len(r.calls) |-> r.calls[i].name]]
    ELSE [h EXCEPT ![sid].matched = FALSE, ![sid].steps = << >>]

\* a write of the session's file that did not succeed is remembered
Degrade(h, sid, w) ==
    IF w \in {"failed", "truncated"} THEN [h EXCEPT ![sid].degraded = TRUE] ELSE h

\* start_session(owner)
DoStart(W) ==
    /\ issued < MaxSessions
    /\ \E owner \in Owners, w \in W :
         LET session_id == issued + 1
             r == Outcome(TRUE, NewSession(session_id, owner), "none", JNone,
                          << >>, {}, FALSE, TRUE)
         IN  /\ issued' = session_id
             /\ Finish("start_session", session_id, CompletionFails, r, w)
             /\ Track(session_id, r, w)
             /\ hist' = Degrade(hist, session_id, w)

\* the reply carried a signal object whose "ready" is true
ReadySignal(signal) == signal.t = "obj" /\ Get(signal.d, "ready", JNone) = JBool(TRUE)

\* the phase whose system prompt process_message sends
PromptPhase(store, sid) ==
    IF sid \in DOMAIN store THEN GreetingAdvance(store[sid])["phase"] ELSE "greeting"

\* process_message(session_id, user_message), the user writing one of the messages M
\* and the completion service answering from C
DoProcessOf(M, C, W, turns) ==
    \E sid \in SessionIds, user_message \in M :
    \E completion \in C[PromptPhase(sessions, sid)] :
      /\ sid \in DOMAIN sessions => Len(sessions[sid]["raw_input_parts"]) < turns
      /\ \E oc \in OutcomeChoices(SignalPhase(completion)) :
           LET r == process_message(sessions, sid, user_message, completion, oc)
           IN  \E w \in WritesOf(r, W) :
                 /\ Finish("process_message", sid, completion, r, w)
                 /\ Track(sid, r, w)
                 /\ hist' = Degrade(Drive(IF ReadySignal(r.signal)
                                           THEN [hist EXCEPT ![sid].ready = TRUE]
                                           ELSE hist,
                                           sid, PromptPhase(sessions, sid), r), sid, w)
                 /\ UNCHANGED issued

DoProcess(C, W, turns) == DoProcessOf(UserMessages, C, W, turns)

\* update_framing(session_id, framing)
DoUpdate(W) ==
    \E sid \in SessionIds :
    \E framing \in FramingInputs(IF sid \in DOMAIN sessions
                                 THEN sessions[sid]["framing"] ELSE _empty_framing) :
      LET r == update_framing(sessions, sid, framing)
      IN  \E w \in WritesOf(r, W) :
            /\ Finish("update_framing", sid, CompletionFails, r, w)
            /\ Track(sid, r, w)
            /\ hist' = Degrade(IF r.found THEN [hist EXCEPT ![sid].updated = TRUE]
                                ELSE hist, sid, w)
            /\ UNCHANGED issued

\* run_logic_check(session_id)
DoLogicCheck ==
    \E sid \in SessionIds, a \in CoherenceOutcomes :
      LET r == run_logic_check(sessions, sid, "CoherenceChecker" :> a)
      IN  /\ Finish("run_logic_check", sid, CompletionFails, r, "none")
          /\ Track(sid, r, "none")
          /\ UNCHANGED <<issued, hist>>

----------------------------------------------------------------------------
(* Spec: the dialogue, every write succeeding                              *)

StartSession == DoStart({"ok"}) /\ UNCHANGED response

ProcessMessage ==
    /\ DoProcess([phase \in PHASE_PROMPTS |-> Completions(phase)], {"ok"}, MaxTurns)
    /\ UNCHANGED response

UpdateFraming == DoUpdate({"ok"}) /\ UNCHANGED response

RunLogicCheck == DoLogicCheck /\ UNCHANGED response

Next ==
    \/ StartSession
    \/ ProcessMessage
    \/ UpdateFraming
    \/ RunLogicCheck

Spec == Init /\ [][Next]_vars

----------------------------------------------------------------------------
(* StoreSpec: the dialogue with a disk that can fail and a process that    *)
(* can be restarted                                                        *)

\* replies that follow the prompt: prose, or prose and the signal the prompt asks for
PromptedCompletions(phase) ==
    { CompletionFails, CompletionReturns(<<TextSeg(Prose)>>) }
    \cup (IF PromptSignal(phase) = "" THEN {}
          ELSE { CompletionReturns(<<TextSeg(Prose \o SPACE),
                                     ExtractSeg(Signal(PromptSignal(phase), TRUE))>>) })

StoreStart == DoStart(WriteOutcomes) /\ UNCHANGED response

StoreProcess ==
    /\ DoProcess([phase \in PHASE_PROMPTS |-> PromptedCompletions(phase)], WriteOutcomes,
                 MaxStoreTurns)
    /\ UNCHANGED response

StoreUpdate == DoUpdate(WriteOutcomes) /\ UNCHANGED response

\* the process is started again: the module is imported, sessions = {} and
\* _load_sessions() fills it from the files. The steps counted for a session were
\* those of the process that ended
Restart ==
    /\ sessions' = LoadedSessions(disk)
    /\ last' = Observation("restart", 0, CompletionFails, NoOutcome, "none")
    /\ hist' = [i \in DOMAIN hist |-> [hist[i] EXCEPT !.matched = FALSE, !.steps = << >>]]
    /\ UNCHANGED <<disk, issued, completed, committed, threads, window,
                 response, pipe, reply, record>>

StoreNext ==
    \/ StoreStart
    \/ StoreProcess
    \/ StoreUpdate
    \/ RunLogicCheck
    \/ Restart

StoreSpec == Init /\ [][StoreNext]_vars

----------------------------------------------------------------------------
(* ConcSpec: process_message served by the threads of the pool. A request  *)
(* leaves the interpreter to other threads while it waits for the          *)
(* completion service; the steps before and after that call are taken as   *)
(* one step each.                                                          *)

\* no request is inside its completion call
Quiet(th) == \A t \in Threads : th[t].pc # "called"

\* process_message up to the completion call (lines 165-198): the session object is
\* changed in place and the request is sent
ConcBegin(t) ==
    \E sid \in DOMAIN sessions, user_message \in UserMessages :
      /\ threads[t].pc = "idle" \/ Quiet(threads)
      /\ threads[t].pc # "called"
      /\ Len(sessions[sid]["raw_input_parts"]) < MaxConcTurns
      /\ LET s4 == BeginTurn(sessions[sid], user_message)
             mine == [pc |-> "called", sid |-> sid, user_message |-> user_message,
                      prompt |-> s4["phase"]]
         IN  /\ sessions' = [sessions EXCEPT ![sid] = s4]
             /\ IF Quiet(threads)
                THEN /\ threads' = [u \in Threads |-> IF u = t THEN mine ELSE IdleThread]
                     /\ window' = [base |-> Some(sessions[sid]), calls |-> << >>,
                                   requests |-> 1]
                ELSE /\ threads' = [threads EXCEPT ![t] = mine]
                     /\ window' = [window EXCEPT !.requests = @ + 1]
      /\ last' = Observation("begin", sid, CompletionFails, NoOutcome, "none")
      /\ UNCHANGED <<disk, issued, hist, completed, committed, response, pipe, reply, record>>

\* process_message from the return of the completion call (lines 200-228), on the
\* session object as the other requests have left it
ConcComplete(t) ==
    /\ threads[t].pc = "called"
    /\ LET sid == threads[t].sid
       IN  \E completion \in PromptedCompletions(threads[t].prompt) :
           \E oc \in OutcomeChoices(SignalPhase(completion)) :
             LET r == CompleteTurn(sessions[sid], completion, oc)
                 w == IF r.saves THEN "ok" ELSE "none"
             IN  /\ sessions' = [sessions EXCEPT ![sid] = r.session]
                 /\ disk' = IF r.saves THEN _save_session(disk, r.session, w) ELSE disk
                 /\ last' = Observation("process_message", sid, completion, r, w)
                 /\ Track(sid, r, w)
                 /\ hist' = Drive(IF ReadySignal(r.signal)
                                  THEN [hist EXCEPT ![sid].ready = TRUE] ELSE hist,
                                  sid, threads[t].prompt, r)
                 /\ threads' = [threads EXCEPT ![t].pc = "done"]
                 /\ window' = [window EXCEPT !.calls = @ \o r.calls]
                 /\ UNCHANGED <<issued, response, pipe, reply, record>>

ConcNext ==
    \/ StartSession
    \/ \E t \in Threads : ConcBegin(t)
    \/ \E t \in Threads : ConcComplete(t)

ConcSpec == Init /\ [][ConcNext]_vars

----------------------------------------------------------------------------
(* ServerSpec: the session operations as the HTTP endpoints of server.py   *)
(* expose them                                                             *)

\* try: ... except ValueError: 404; except Exception: 500
StatusOf(exc) ==
    CASE exc = "none" -> 200
      [] exc = "ValueError" -> 404
      [] OTHER -> 500

\* the messages a client may post: the user messages, and one of spaces only
PostedMessages == UserMessages \cup { SPACE }

\* how a call of the record store ends when the endpoint reaches it
Upstream == {"ok", "failed"}

\* a request that an endpoint answers without calling the engine
Answer(endpoint, sid, valid, upstream, status) ==
    /\ response' = Response(endpoint, sid, sid \in DOMAIN sessions, valid, upstream, status)
    /\ last' = Observation(endpoint, sid, CompletionFails, NoOutcome, "none")
    /\ UNCHANGED <<sessions, disk, issued, hist, completed, committed, threads,
                 window, pipe, reply, record>>

\* POST /chat/start
ChatStart ==
    /\ DoStart({"ok"})
    /\ response' = Response("/chat/start", last'.sid, FALSE, TRUE, "none", StatusOf(last'.exc))

\* POST /chat/message: 400 for a message that is empty once stripped, before the
\* session is looked up
ChatMessage ==
    \/ \E sid \in SessionIds, message \in PostedMessages :
         /\ Strip(message) = EmptyText
         /\ Answer("/chat/message", sid, FALSE, "none", 400)
    \/ /\ DoProcess([phase \in PHASE_PROMPTS |-> PromptedCompletions(phase)], {"ok"},
                    MaxServerTurns)
       /\ response' = Response("/chat/message", last'.sid, last'.sid \in DOMAIN sessions,
                               TRUE, "none", StatusOf(last'.exc))

\* POST /chat/logic-check
ChatLogicCheck ==
    /\ DoLogicCheck
    /\ response' = Response("/chat/logic-check", last'.sid, last'.sid \in DOMAIN sessions,
                            TRUE, "none", StatusOf(last'.exc))

\* POST /chat/save-notion: the HTTPException(404) is raised inside the try block and
\* `except Exception` turns it into a 500
chat_save_notion(store, session_id, upstream) ==
    IF get_session(store, session_id) = Absent
    THEN 500
    ELSE IF upstream = "ok" THEN 200 ELSE 500

ChatSaveNotion ==
    \E sid \in SessionIds :
    \E upstream \in (IF sid \in DOMAIN sessions THEN Upstream ELSE {"none"}) :
      Answer("/chat/save-notion", sid, TRUE, upstream,
             chat_save_notion(sessions, sid, upstream))

\* POST /notion-sync: the page is read from the record store first, then the session
\* is updated
NotionSync ==
    \/ \E sid \in SessionIds : Answer("/notion-sync", sid, TRUE, "failed", 500)
    \/ /\ DoUpdate({"ok"})
       /\ response' = Response("/notion-sync", last'.sid, last'.sid \in DOMAIN sessions,
                               TRUE, "ok", StatusOf(last'.exc))

ServerNext ==
    \/ ChatStart
    \/ ChatMessage
    \/ ChatLogicCheck
    \/ ChatSaveNotion
    \/ NotionSync

ServerSpec == Init /\ [][ServerNext]_vars

----------------------------------------------------------------------------
(* The batch pipeline, one step at a time                                  *)

\* a variant that goes on to the next step after a step that raised
StatusAfterContinuing(n, steps, exc) ==
    IF n = steps THEN "returned" ELSE "running"

\* how a call stands after its step n of `steps` steps ended with `exc`
StatusAfter(n, steps, exc) ==
    IF exc # "none" THEN "raised" ELSE IF n = steps THEN "returned" ELSE "running"

\* run_pipeline(raw_input, keywords): state = copy.deepcopy(INITIAL_STATE)
RunPipelineStart ==
    /\ pipe.status = "idle"
    /\ \E raw_input \in RawInputs, keywords \in KeywordLists :
         LET state == [INITIAL_STATE EXCEPT !.raw_input = raw_input]
         IN  pipe' = [IdlePipe EXCEPT !.op = "run_pipeline", !.status = "running",
                                      !.state = state, !.before = state,
                                      !.keywords = keywords]
    /\ UNCHANGED <<dialogue_vars, reply, record>>

\* the next of the ten steps of run_pipeline
RunPipelineStep ==
    /\ pipe.op = "run_pipeline"
    /\ pipe.status = "running"
    /\ LET n == pipe.pc + 1
       IN  \E result \in RunPipelineOutcomes(n) :
           \E merged \in (IF n = 2 THEN MergeChoices(pipe.state, result)
                          ELSE { pipe.state.keyword_map }) :
             LET r == PipelineStep(n, pipe.state, result, merged)
             IN  pipe' = [pipe EXCEPT
                    !.pc = n,
                    !.state = r.state,
                    !.exc = r.exc,
                    !.answer = result,
                    !.status = StatusAfter(n, Len(PIPELINE_STEPS), r.exc),
                    !.calls = Append(@, Invoke(PIPELINE_STEPS[n],
                                               PipelineInput(n, pipe.state, pipe.keywords))),
                    !.sync = IF n = 1 THEN result.out ELSE @,
                    !.proposed = IF n = 2 THEN result.out ELSE @]
    /\ UNCHANGED <<dialogue_vars, reply, record>>

\* update_keywords(state, keywords) on a fresh state or on the Artifact run_pipeline
\* returned
UpdateKeywordsStart ==
    /\ \/ pipe.status = "idle"
       \/ pipe.op = "run_pipeline" /\ pipe.status = "returned"
    /\ \E keywords \in KeywordLists :
         pipe' = [pipe EXCEPT !.op = "update_keywords", !.pc = 0, !.status = "running",
                              !.before = pipe.state, !.keywords = keywords,
                              !.calls = << >>, !.exc = "none", !.sync = EmptyDict,
                              !.answer = Raises]
    /\ UNCHANGED <<dialogue_vars, reply, record>>

\* the next of the two steps of update_keywords; the state is the caller's dict, so
\* what a step assigned stays assigned when a later step raises
UpdateKeywordsStep ==
    /\ pipe.op = "update_keywords"
    /\ pipe.status = "running"
    /\ LET n == pipe.pc + 1
       IN  \E result \in UpdateOutcomes(n) :
             LET r == UpdateStep(n, pipe.state, result)
             IN  pipe' = [pipe EXCEPT
                    !.pc = n,
                    !.state = r.state,
                    !.exc = r.exc,
                    !.answer = result,
                    !.status = StatusAfter(n, Len(UPDATE_STEPS), r.exc),
                    !.calls = Append(@, Invoke(UPDATE_STEPS[n],
                                               UpdateInput(n, pipe.state, pipe.keywords))),
                    !.sync = IF n = 1 THEN result.out ELSE @]
    /\ UNCHANGED <<dialogue_vars, reply, record>>

\* run_notion_pipeline(raw_input, owner)
RunNotionPipelineStart ==
    /\ pipe.status = "idle"
    /\ \E raw_input \in RawInputs, owner \in Owners \cup { EmptyText } :
         LET locals == NotionLocals(raw_input, owner)
         IN  pipe' = [IdlePipe EXCEPT !.op = "run_notion_pipeline", !.status = "running",
                                      !.state = locals, !.before = locals]
    /\ UNCHANGED <<dialogue_vars, reply, record>>

\* the next of the seven skills of run_notion_pipeline, with the statements up to the
\* following skill; the last one assembles notion_output
RunNotionPipelineStep ==
    /\ pipe.op = "run_notion_pipeline"
    /\ pipe.status = "running"
    /\ LET n == pipe.pc + 1
       IN  \E result \in RunNotionOutcomes(n), year \in Years :
             LET r == NotionStep(n, pipe.state, result)
                 status == StatusAfter(n, Len(NOTION_STEPS), r.exc)
             IN  pipe' = [pipe EXCEPT
                    !.pc = n,
                    !.state = r.state,
                    !.exc = r.exc,
                    !.answer = result,
                    !.status = status,
                    !.calls = Append(@, Invoke(NOTION_STEPS[n], NotionInput(n, pipe.state))),
                    !.output = IF status = "returned" THEN NotionOutput(r.state, year)
                               ELSE @]
    /\ UNCHANGED <<dialogue_vars, reply, record>>

PipelineNext ==
    \/ RunPipelineStart
    \/ RunPipelineStep
    \/ UpdateKeywordsStart
    \/ UpdateKeywordsStep
    \/ RunNotionPipelineStart
    \/ RunNotionPipelineStep

PipelineSpec == Init /\ [][PipelineNext]_vars

----------------------------------------------------------------------------
(* TranscriptSpec: the dialogue of a user who writes different messages    *)

\* "研究?", "b"
TranscriptMessages == UserMessages \cup { <<98>> }

TranscriptProcess ==
    /\ DoProcessOf(TranscriptMessages,
                   [phase \in PHASE_PROMPTS |-> PromptedCompletions(phase)], {"ok"},
                   MaxTranscriptTurns)
    /\ UNCHANGED response

TranscriptNext ==
    \/ StartSession
    \/ TranscriptProcess
    \/ UpdateFraming

TranscriptSpec == Init /\ [][TranscriptNext]_vars

----------------------------------------------------------------------------
(* DrivenSpec: a session whose user keeps writing, every reply carrying the *)
(* ready signal the prompt of the phase asks for and every call returning,  *)
(* until the session is complete; from then on the completion service      *)
(* answers with prose or fails                                             *)

ReadyCompletions(phase) ==
    IF PromptSignal(phase) = "" THEN PromptedCompletions(phase)
    ELSE { CompletionReturns(<<TextSeg(Prose \o SPACE),
                               ExtractSeg(Signal(PromptSignal(phase), TRUE))>>) }

DrivenProcess ==
    /\ DoProcessOf(TranscriptMessages,
                   [phase \in PHASE_PROMPTS |-> ReadyCompletions(phase)], {"ok"}, MaxTurns)
    /\ last'.sid \in DOMAIN sessions
    /\ sessions[last'.sid]["phase"] # "complete" => last'.exc = "none"
    /\ UNCHANGED response

DrivenNext ==
    \/ StartSession
    \/ DrivenProcess

DrivenSpec == Init /\ [][DrivenNext]_vars

----------------------------------------------------------------------------
(* ProgramSpec: the dialogue and the batch pipeline of one program. Neither *)
(* reads or writes the state of the other, so a behaviour follows one of   *)
(* them                                                                    *)

ProgramNext ==
    \/ pipe.status = "idle" /\ Next
    \/ last.op = "init" /\ PipelineNext

ProgramSpec == Init /\ [][ProgramNext]_vars

----------------------------------------------------------------------------
(* The reply as text, one piece at a time                                  *)

\* the completion service writes one more piece of response.choices[0].message.content
ComposeReply ==
    /\ ~reply.cleaned
    /\ reply.pieces < MaxPieces
    /\ \E piece \in ReplyPieces :
         reply' = ReplyText(reply.raw \o piece, reply.pieces + 1, FALSE, EmptyText)
    /\ UNCHANGED <<dialogue_vars, pipe, record>>

\* agent_message = _clean_response(raw_reply)
CleanReply ==
    /\ ~reply.cleaned
    /\ reply' = ReplyText(reply.raw, reply.pieces, TRUE, CleanText(reply.raw))
    /\ UNCHANGED <<dialogue_vars, pipe, record>>

ReplyNext ==
    \/ ComposeReply
    \/ CleanReply

ReplySpec == Init /\ [][ReplyNext]_vars

----------------------------------------------------------------------------
(* The record store, one call at a time                                    *)

\* a framing record is at hand (a session's Artifact, or the output of
\* run_notion_pipeline)
ComposeRecord ==
    /\ record.framing = Absent
    /\ \E framing \in Records : record' = RecordState(Some(framing), Absent, Absent)
    /\ UNCHANGED <<dialogue_vars, pipe, reply>>

\* write_to_notion(framing): pages.create with the properties built
WriteToNotion ==
    /\ record.framing # Absent
    /\ record.page = Absent
    /\ record' = [record EXCEPT
                    !.page = Some(StoredPage(write_to_notion(record.framing[1])))]
    /\ UNCHANGED <<dialogue_vars, pipe, reply>>

\* notion_sync: pages.retrieve and the loop over the field names
SyncFromNotion ==
    /\ record.page # Absent
    /\ record.synced = Absent
    /\ record' = [record EXCEPT !.synced = Some(SyncedFraming(record.page[1]))]
    /\ UNCHANGED <<dialogue_vars, pipe, reply>>

RecordNext ==
    \/ ComposeRecord
    \/ WriteToNotion
    \/ SyncFromNotion

RecordSpec == Init /\ [][RecordNext]_vars

----------------------------------------------------------------------------
(* Properties of the dialogue                                              *)

\* this step is a process_message call on the stored session sid
Turn(sid) ==
    /\ sid \in DOMAIN sessions
    /\ last'.op = "process_message"
    /\ last'.sid = sid

\* the reply carried no ready signal: no extract span (or one that does not parse), or
\* a signal object whose "ready" is false
NoReadySignal(signal) ==
    \/ signal = JNone
    \/ signal.t = "obj" /\ Get(signal.d, "ready", JNone) = JBool(FALSE)

\* the names of the skills a call invoked, in order
SkillNames(calls) == [i \in 1 .. Len(calls) |-> calls[i].name]

\* the phase table of the dialogue: the extractions of each phase, in order
TableSkills(phase) ==
    CASE phase = "tension_discovery" -> <<"EpistemicModeClassifier", "TensionExtractor">>
      [] phase = "positioning" -> <<"ResearchPositionBuilder">>
      [] phase = "question_sharpening" -> <<"ResearchQuestionGenerator">>
      [] phase = "method_contribution" ->
            <<"MethodInferrer", "ResultInferrer", "ContributionClaimer">>
      [] OTHER -> << >>

\* the phase table of the dialogue: the Artifact fields each phase writes
TableFields(phase) ==
    CASE phase = "tension_discovery" -> {"Research Type", "Background"}
      [] phase = "positioning" -> {"Purpose"}
      [] phase = "question_sharpening" -> {"RQ"}
      [] phase = "method_contribution" ->
            {"Method", "Result", "Contribution", "Project Name"}
      [] OTHER -> {}

ExtractionPhases ==
    {"tension_discovery", "positioning", "question_sharpening", "method_contribution"}

\* the successor of a phase in PHASE_ORDER
Successor(phase) ==
    PHASE_ORDER[1 + CHOOSE i \in 1 .. Len(PHASE_ORDER) - 1 : PHASE_ORDER[i] = phase]

\* the fields of the phases after tension_discovery
LaterFields == {"Purpose", "RQ", "Method", "Result", "Contribution", "Project Name"}

\* C1: over start_session, process_message, update_framing and run_logic_check, with
\* any reply and any failure, no session's phase index ever decreases from one state
\* to the next (and no session disappears).
C1_PhaseIndexNeverDecreases ==
    [][\A sid \in DOMAIN sessions :
          /\ sid \in DOMAIN sessions'
          /\ sessions'[sid]["phase_index"] >= sessions[sid]["phase_index"]]_vars

\* a session that reached complete, had its framing updated, and then took a turn
\* that raised
C1_Witness ==
    \E sid \in DOMAIN sessions :
      /\ sessions[sid]["phase_index"] = 5
      /\ hist[sid].updated
      /\ last.op = "process_message" /\ last.sid = sid /\ last.exc # "none"

\* C2: a turn that returns after a ready signal, taken in one of the four extraction
\* phases P, ran exactly the skills the phase table gives for P, wrote exactly the
\* fields of P (RQ only when questions were generated), and left the phase at the
\* successor of P.
C2_ReadyRunsThePhaseExtraction ==
    [][\A sid \in DOMAIN sessions :
          ( /\ Turn(sid)
            /\ sessions[sid]["phase"] \in ExtractionPhases
            /\ last'.exc = "none"
            /\ ReadySignal(last'.signal) )
          => LET P == sessions[sid]["phase"]
             IN  /\ SkillNames(last'.calls) = TableSkills(P)
                 /\ IF P = "question_sharpening"
                    THEN last'.wrote \subseteq TableFields(P)
                    ELSE last'.wrote = TableFields(P)
                 /\ sessions'[sid]["phase"] = Successor(P)]_vars

\* C3 as claimed: every process_message call leaves the phase index unchanged or
\* increased by exactly one, from greeting too.
C3_IndexStepsByAtMostOne ==
    [][\A sid \in DOMAIN sessions :
          Turn(sid) =>
            sessions'[sid]["phase_index"] - sessions[sid]["phase_index"] \in {0, 1}]_vars

\* C3 as amended: a process_message call leaves the phase index unchanged or increased
\* by exactly one, except from greeting: there the call first moves to
\* tension_discovery, so the index becomes 1, or 2 when the reply carries a ready
\* signal.
C3_IndexStepsInOrder ==
    [][\A sid \in DOMAIN sessions :
          Turn(sid) =>
            IF sessions[sid]["phase"] = "greeting"
            THEN /\ sessions'[sid]["phase_index"] \in {1, 2}
                 /\ sessions'[sid]["phase_index"] = 2 => ReadySignal(last'.signal)
            ELSE sessions'[sid]["phase_index"] - sessions[sid]["phase_index"]
                    \in {0, 1}]_vars

\* the first turn of a session took it from greeting to positioning
C3_Witness ==
    \E sid \in DOMAIN sessions :
      /\ last.op = "process_message" /\ last.sid = sid
      /\ Len(sessions[sid]["raw_input_parts"]) = 1
      /\ sessions[sid]["phase_index"] = 2

\* C4, each turn: a turn of a session past greeting whose reply carries no ready signal
\* calls no skill and leaves phase, phase index and every Artifact field as they were.
C4_QuietTurn ==
    \A sid \in DOMAIN sessions :
      ( /\ Turn(sid)
        /\ sessions[sid]["phase"] # "greeting"
        /\ last'.completion.ok
        /\ NoReadySignal(last'.signal) )
      => /\ last'.calls = << >>
         /\ sessions'[sid]["phase"] = sessions[sid]["phase"]
         /\ sessions'[sid]["phase_index"] = sessions[sid]["phase_index"]
         /\ sessions'[sid]["framing"] = sessions[sid]["framing"]

\* C4, the whole dialogue: a session that has taken turns and has never had a ready
\* signal is in tension_discovery, and the fields of the later phases are at their
\* empty defaults (unless update_framing was called on it).
C4_NeverReady ==
    \A sid \in DOMAIN sessions :
      ~hist[sid].ready
      => /\ sessions[sid]["phase_index"] <= 1
         /\ sessions[sid]["raw_input_parts"] # << >>
              => sessions[sid]["phase"] = "tension_discovery"
         /\ ~hist[sid].updated
              => \A f \in LaterFields : sessions[sid]["framing"][f] = EmptyText

\* C4: a turn without a ready signal changes neither the phase nor the Artifact, and a
\* session that never sees a ready signal stays in tension_discovery with the later
\* fields empty.
C4_NoReadyNoChange == [][C4_QuietTurn]_vars /\ []C4_NeverReady

\* three turns, none with a ready signal, the last one answered and not ready
C4_Witness ==
    \E sid \in DOMAIN sessions :
      /\ Len(sessions[sid]["raw_input_parts"]) = 3
      /\ ~hist[sid].ready /\ ~hist[sid].updated
      /\ last.op = "process_message" /\ last.sid = sid /\ last.exc = "none"
      /\ last.signal.t = "obj" /\ NoReadySignal(last.signal)
      /\ sessions[sid]["phase"] = "tension_discovery"

\* C5: a turn whose signal is ready but has no phase key, or a phase that names no
\* extraction, is treated as not ready: no skill runs, the phase stays, and
\* extraction_happened is false.
C5_MalformedReadyIsNotReady ==
    [][\A sid \in DOMAIN sessions :
          ( /\ Turn(sid)
            /\ ReadySignal(last'.signal)
            /\ SkillsOf(Get(last'.signal.d, "phase", JNone)) = {} )
          => /\ last'.calls = << >>
             /\ sessions'[sid]["phase"] = PromptPhase(sessions, sid)
             /\ ~last'.extraction_happened]_vars

\* the extract span of a reply is not valid structured data for a signal: it does not
\* parse, or parses to something that is no object, or its selected_index is no integer
InvalidSignal(completion) ==
    /\ completion.ok
    /\ ExtractSegs(completion.reply) # << >>
    /\ LET span == ExtractSegs(completion.reply)[1]
       IN  \/ ~span.valid
           \/ span.json.t # "obj"
           \/ /\ "selected_index" \in DOMAIN span.json.d
              /\ span.json.d["selected_index"].t # "int"

\* C6: a turn whose extract span is not valid structured data returns normally with
\* the phase unchanged.
C6_InvalidSignalNeverRaises ==
    [][\A sid \in DOMAIN sessions :
          (Turn(sid) /\ InvalidSignal(last'.completion))
          => /\ last'.exc = "none"
             /\ sessions'[sid]["phase"] = PromptPhase(sessions, sid)]_vars

\* C7: once a session is complete, a turn calls no skill, changes no Artifact field and
\* leaves the phase complete.
C7_CompleteIsTerminal ==
    [][\A sid \in DOMAIN sessions :
          (Turn(sid) /\ sessions[sid]["phase"] = "complete")
          => /\ last'.calls = << >>
             /\ sessions'[sid]["framing"] = sessions[sid]["framing"]
             /\ sessions'[sid]["phase"] = "complete"]_vars

\* C9: at the end of start_session, process_message and update_framing, whether the
\* call returned or raised, the session file holds the in-memory session, unless a
\* write failed.
C9_PersistedAfterEveryOperation ==
    ( /\ last.op \in {"start_session", "process_message", "update_framing"}
      /\ last.sid \in DOMAIN sessions
      /\ last.write \in {"ok", "none"} )
    => disk[last.sid] = JsonDumps(sessions[last.sid])

\* the phase, transcript and Artifact of a session
Durable(session) ==
    [ phase |-> session["phase"], phase_index |-> session["phase_index"],
      messages |-> session["messages"], framing |-> session["framing"] ]

\* C10: right after a restart every session that was created, and whose file writes
\* all succeeded, is in the store with the phase, transcript and Artifact it had at the
\* end of the last call on it that returned.
C10_RestartKeepsLastCompleted ==
    last.op = "restart"
    => \A sid \in SessionIds :
         (completed[sid] # Absent /\ ~hist[sid].degraded)
         => /\ get_session(sessions, sid) # Absent
            /\ Durable(sessions[sid]) = Durable(completed[sid][1])

\* what two executions of requests are compared on
Observable(session) ==
    [ phase |-> session["phase"], phase_index |-> session["phase_index"],
      messages |-> session["messages"], raw_input_parts |-> session["raw_input_parts"],
      framing |-> session["framing"] ]

\* the set of skills a sequence of calls invoked
SkillSet(calls) == {calls[i].name : i \in 1 .. Len(calls)}

\* every way `n` process_message calls on session sid can run one after the other,
\* each to its end before the next starts: the session they leave and the skills they
\* call
RECURSIVE SerialRuns(_, _, _, _)
SerialRuns(store, sid, n, calls) ==
    IF n = 0
    THEN { [session |-> Observable(store[sid]), skills |-> SkillSet(calls)] }
    ELSE UNION { UNION { UNION {
            LET r == process_message(store, sid, user_message, completion, oc)
            IN  SerialRuns((sid :> r.session) @@ store, sid, n - 1, calls \o r.calls)
            : oc \in OutcomeChoices(SignalPhase(completion)) }
            : completion \in PromptedCompletions(PromptPhase(store, sid)) }
            : user_message \in UserMessages }

\* C8: when the requests that overlapped on a session have all ended, the session and
\* the set of skills they called are what the same number of requests leave when they
\* run one after the other.
C8_ConcurrentRequestsSerialized ==
    \A sid \in DOMAIN sessions :
      ( /\ Quiet(threads)
        /\ window.base # Absent
        /\ window.base[1]["id"] = sid )
      => [ session |-> Observable(sessions[sid]), skills |-> SkillSet(window.calls) ]
           \in SerialRuns((sid :> window.base[1]), sid, window.requests, << >>)

\* C11: a process_message call whose write of the session file fails still returns,
\* leaves the updated session in memory, and adds a record of the failed write to the
\* log.
C11_FailedWriteIsLogged ==
    ( /\ last.op = "process_message"
      /\ last.write \in {"failed", "truncated"} )
    => /\ last.exc = "none"
       /\ completed[last.sid] = Some(sessions[last.sid])
       /\ last.logged # << >>

\* the endpoints that operate on a session named in the request
SessionEndpoints == {"/chat/message", "/chat/logic-check", "/chat/save-notion", "/notion-sync"}

\* C12: a request to a session endpoint that names an unknown session id (the request
\* being valid otherwise and the record store answering) is answered 404 and leaves the
\* sessions in memory and on disk as they were.
C12_UnknownSessionIsNotFound ==
    [][( /\ response'.endpoint \in SessionEndpoints
         /\ ~response'.known
         /\ response'.valid
         /\ response'.upstream # "failed" )
       => /\ response'.status = 404
          /\ UNCHANGED <<sessions, disk>>]_vars

\* the questions of a list of generated question objects
QuestionsOf(rq_list) == {rq_list[i]["question"] : i \in 1 .. Len(rq_list)}

\* C13: an Artifact run_pipeline returns with a non-empty research_questions has
\* selected_rq equal to the question of the first element, which makes it one of the
\* questions of the list.
C13_SelectedIsFirstQuestion ==
    ( /\ pipe.op = "run_pipeline"
      /\ pipe.status = "returned"
      /\ pipe.state.research_questions # << >> )
    => /\ pipe.state.selected_rq = pipe.state.research_questions[1]["question"]
       /\ pipe.state.selected_rq \in QuestionsOf(pipe.state.research_questions)

C13_Witness ==
    /\ pipe.op = "run_pipeline"
    /\ pipe.status = "returned"
    /\ Len(pipe.state.research_questions) = 3
    /\ pipe.state.selected_rq = Question(1)["question"]

\* the position of ResearchQuestionGenerator among the skills of a pipeline
GeneratorStepOf(op) == IF op = "run_pipeline" THEN 6 ELSE 4

\* C16: when ResearchQuestionGenerator has just returned an empty list to run_pipeline
\* or to run_notion_pipeline, the step ends without an exception and the selected
\* question is empty.
C16_EmptyListIsNotAnError ==
    ( /\ pipe.op \in {"run_pipeline", "run_notion_pipeline"}
      /\ pipe.pc = GeneratorStepOf(pipe.op)
      /\ pipe.answer = Returns([research_questions |-> << >>]) )
    => /\ pipe.exc = "none"
       /\ pipe.state.selected_rq = EmptyText

\* the fields of the state that update_keywords is to leave alone
FrameFields ==
    { "research_position", "research_questions", "selected_rq", "method", "result_type",
      "contribution", "coherence_notes", "abstract_en", "abstract_zh", "mode", "tension",
      "raw_input" }

\* C17: during and after a call of update_keywords, whether its steps went through or
\* one of them raised, every field of the state other than keyword_map, keyword_roles,
\* epistemic_profile and rule_engine_output is what it was when the call began.
C17_UpdateKeywordsFrame ==
    pipe.op = "update_keywords"
    => \A f \in FrameFields : pipe.state[f] = pipe.before[f]

C17_Witness ==
    /\ pipe.op = "update_keywords"
    /\ pipe.status = "returned"
    /\ pipe.before.selected_rq # EmptyText
    /\ pipe.before.abstract_en # EmptyText
    /\ pipe.state.epistemic_profile # pipe.before.epistemic_profile
    /\ pipe.state.rule_engine_output # pipe.before.rule_engine_output

\* the largest of a non-empty set of weights
MaxWeight(W) == CHOOSE w \in W : \A v \in W : v <= w

\* step 2 of the run_pipeline call has gone through
Merged == pipe.op = "run_pipeline" /\ (pipe.pc > 2 \/ (pipe.pc = 2 /\ pipe.exc = "none"))

\* the epistemic_profile the keyword sync of the call left in the state
SyncProfile == Get(pipe.sync, "epistemic_profile", INITIAL_STATE.epistemic_profile)

\* the weights the two sources give orientation o
WeightsFor(o) ==
    LET proposed == Get(pipe.proposed, "epistemic_profile", EmptyDict)
    IN  {SyncProfile[k] : k \in {o} \cap DOMAIN SyncProfile}
          \cup {proposed[k] : k \in {o} \cap DOMAIN proposed}

\* C18: once run_pipeline has merged what the classifier proposed, each of the four
\* orientations that the keyword sync or the classifier gave a weight has, in
\* epistemic_profile, the largest of the weights given.
C18_MergedWeightIsMax ==
    Merged =>
      \A o \in Orientations :
        WeightsFor(o) # {} =>
          /\ o \in DOMAIN pipe.state.epistemic_profile
          /\ pipe.state.epistemic_profile[o] = MaxWeight(WeightsFor(o))

\* the keyword_map the keyword sync of the call left in the state
SyncKeywordMap == Get(pipe.sync, "keyword_map", INITIAL_STATE.keyword_map)

\* the terms the two sources give orientation o
TermsFor(o) ==
    LET proposed == Get(pipe.proposed, "keyword_map", EmptyDict)
    IN  UNION ( {Elements(SyncKeywordMap[k]) : k \in {o} \cap DOMAIN SyncKeywordMap}
                  \cup {Elements(proposed[k]) : k \in {o} \cap DOMAIN proposed} )

\* C19: once run_pipeline has merged what the classifier proposed, each of the four
\* orientations has in keyword_map exactly the terms the keyword sync and the
\* classifier gave it, each term once.
C19_MergedTermsAreUnion ==
    Merged =>
      \A o \in Orientations :
        TermsFor(o) # {} =>
          /\ o \in DOMAIN pipe.state.keyword_map
          /\ Elements(pipe.state.keyword_map[o]) = TermsFor(o)
          /\ Len(pipe.state.keyword_map[o]) = Cardinality(TermsFor(o))

\* a skill input carries an input field that still has its default value: an empty
\* selected_rq, mode or research_position, or a tension nothing was extracted into
DefaultInput(skill_input) ==
    \/ \E f \in {"selected_rq", "mode", "research_position"} \cap DOMAIN skill_input :
         skill_input[f] = EmptyText
    \/ /\ "tension" \in DOMAIN skill_input
       /\ skill_input["tension"] \in {EmptyDict, INITIAL_STATE.tension}

\* C20: no skill of run_pipeline or run_notion_pipeline is called with an empty
\* selected_rq, mode or research_position or with an empty tension (NotionKeywordSync
\* takes none of these fields, its keyword list may be empty).
C20_NoStepOnDefaultInput ==
    pipe.op \in {"run_pipeline", "run_notion_pipeline"}
    => \A i \in 1 .. Len(pipe.calls) : ~DefaultInput(pipe.calls[i].input)

\* C14: in every session the RQ field is empty or is the question of one of the
\* rq_candidates, the most recently generated list.
C14_SelectedFromCandidates ==
    \A sid \in DOMAIN sessions :
      \/ sessions[sid]["framing"]["RQ"] = EmptyText
      \/ sessions[sid]["framing"]["RQ"] \in QuestionsOf(sessions[sid]["rq_candidates"])

\* the question the selection policy names: element i of the list when i is an index
\* of it, the first element otherwise
PolicyChoice(rq_list, i) ==
    IF 0 <= i /\ i < Len(rq_list) THEN rq_list[i + 1]["question"]
    ELSE rq_list[1]["question"]

\* a ready signal for the question extraction whose selected_index is an integer (0
\* when the key is absent)
IntegerSelection(signal) ==
    /\ ReadySignal(signal)
    /\ IsStr(Get(signal.d, "phase", JNone), "question")
    /\ Get(signal.d, "selected_index", JInt(0)).t = "int"

\* C15: a turn whose signal selects a question by an integer index i, the generator
\* having returned a non-empty list, returns normally with RQ set to element i when
\* 0 <= i < n and to element 0 otherwise.
C15_SelectionFallsBackToFirst ==
    [][\A sid \in DOMAIN sessions :
          ( /\ Turn(sid)
            /\ IntegerSelection(last'.signal)
            /\ last'.exc # "SkillError"
            /\ sessions'[sid]["rq_candidates"] # << >> )
          => /\ last'.exc = "none"
             /\ sessions'[sid]["framing"]["RQ"]
                  = PolicyChoice(sessions'[sid]["rq_candidates"],
                                 Get(last'.signal.d, "selected_index", JInt(0)).i)]_vars

\* index 5 against three generated questions selected the first one
C15_Witness ==
    \E sid \in DOMAIN sessions :
      /\ last.op = "process_message" /\ last.sid = sid /\ last.exc = "none"
      /\ IntegerSelection(last.signal)
      /\ Get(last.signal.d, "selected_index", JInt(0)).i = 5
      /\ Len(sessions[sid]["rq_candidates"]) = 3
      /\ sessions[sid]["framing"]["RQ"] = sessions[sid]["rq_candidates"][1]["question"]

\* a process_message call on session sid raised after the session was found
FailedTurn(sid) ==
    /\ Turn(sid)
    /\ last'.exc \notin {"none", "ValueError"}

\* C21: a process_message call that raises (the completion call or a skill call
\* failed) leaves the phase index where it was when the failing call was made, never
\* lower than before the turn, leaves every Artifact field that no completed step of
\* the turn assigned as it was, keeps the turns accumulated so far, and leaves the
\* session's file as it was.
C21_FailureKeepsCompletedSteps ==
    [][\A sid \in DOMAIN sessions :
          FailedTurn(sid)
          => /\ sessions'[sid]["phase_index"]
                  = (IF sessions[sid]["phase_index"] = 0 THEN 1
                     ELSE sessions[sid]["phase_index"])
             /\ sessions'[sid]["phase"] = PhaseAt(sessions'[sid]["phase_index"])
             /\ \A f \in FieldNames \ last'.wrote :
                  sessions'[sid]["framing"][f] = sessions[sid]["framing"][f]
             /\ SubSeq(sessions'[sid]["raw_input_parts"], 1,
                       Len(sessions[sid]["raw_input_parts"]))
                  = sessions[sid]["raw_input_parts"]
             /\ disk' = disk]_vars

\* a skill raised in method_contribution, with the fields of the earlier phases in
\* place
C21_Witness ==
    \E sid \in DOMAIN sessions :
      /\ last.op = "process_message" /\ last.sid = sid /\ last.exc = "SkillError"
      /\ sessions[sid]["phase"] = "method_contribution"
      /\ sessions[sid]["framing"]["Research Type"] # EmptyText
      /\ sessions[sid]["framing"]["Purpose"] # EmptyText
      /\ sessions[sid]["framing"]["RQ"] # EmptyText

\* the steps of the function a pipeline call is running
StepsOf(op) ==
    CASE op = "run_pipeline" -> PIPELINE_STEPS
      [] op = "update_keywords" -> UPDATE_STEPS
      [] OTHER -> NOTION_STEPS

\* C22: when a step of run_pipeline, update_keywords or run_notion_pipeline has
\* failed, the failing step was invoked once, nothing was invoked after it, and the
\* failure the caller receives names that step.
C22_FailureNamesTheStep ==
    pipe.status = "raised"
    => /\ Len(pipe.calls) = pipe.pc
       /\ \A i \in 1 .. pipe.pc : pipe.calls[i].name = StepsOf(pipe.op)[i]
       /\ FailureOf(pipe.exc).step = Some(StepsOf(pipe.op)[pipe.pc])

\* the output key the pipeline reads from the answer of a skill, for the four skills
\* whose output is one text
OutputKeyOf(skill_name) ==
    CASE skill_name = "EpistemicModeClassifier" -> {"mode"}
      [] skill_name = "ResearchPositionBuilder" -> {"research_position"}
      [] skill_name = "MethodLogicAligner" -> {"method"}
      [] skill_name = "ContributionClaimer" -> {"contribution"}
      [] OTHER -> {}

\* C23: a step of run_pipeline whose skill answered without its output key (no mode,
\* no research_position, no method, no contribution) ends as a failure, it is not
\* taken as a success.
C23_MissingKeyIsFailure ==
    ( /\ pipe.op = "run_pipeline"
      /\ pipe.pc >= 1
      /\ pipe.answer.ok
      /\ ~(OutputKeyOf(PIPELINE_STEPS[pipe.pc]) \subseteq DOMAIN pipe.answer.out) )
    => pipe.exc # "none"

\* the position of a phase in PHASE_ORDER, counted from 0
PhaseIndexOf(phase) == CHOOSE i \in 0 .. Len(PHASE_ORDER) - 1 : PhaseAt(i) = phase

\* the fields of the phases a session has left behind that hold a value
SettledFields(session) ==
    { f \in UNION { TableFields(p) : p \in { q \in ExtractionPhases :
                                             PhaseIndexOf(q) < session["phase_index"] } } :
        session["framing"][f] # EmptyText }

\* C24: a process_message turn assigns no Artifact field that belongs to a phase the
\* session has already left and that already holds a value.
C24_FieldsWrittenOnce ==
    [][\A sid \in DOMAIN sessions :
          Turn(sid) => SettledFields(sessions[sid]) \cap last'.wrote = {}]_vars

\* C25: the agent_message process_message makes of a completion reply contains no
\* <extract>...</extract> span.
C25_AgentMessageHasNoSpan ==
    reply.cleaned => ~ContainsSpan(reply.agent_message)

\* C26: a session driven from greeting to complete by ready signals that each name
\* the phase in force has invoked, in order, the steps run_pipeline invokes from
\* EpistemicModeClassifier through ContributionClaimer.
C26_SameStepSequence ==
    \A sid \in DOMAIN sessions :
      ( /\ hist[sid].matched
        /\ sessions[sid]["phase"] = "complete" )
      => hist[sid].steps = SubSeq(PIPELINE_STEPS, 2, 8)

\* C27: a framing record written with write_to_notion and loaded back through the
\* sync path comes back field by field as it was written, a field longer than 2000
\* characters as its first 2000 characters.
C27_RoundTrip ==
    record.synced # Absent
    => \A f \in FieldNames :
         record.synced[1][f] = Truncate(record.framing[1][f], NOTION_TEXT_CAP)

\* the names of the steps invoked so far by the call in progress
StepNames(p) == [i \in 1 .. Len(p.calls) |-> p.calls[i].name]

\* C28: run_pipeline invokes its steps one at a time in the order keyword sync, mode
\* classification, rule engine, tension extraction, position building, question
\* generation, method/logic alignment, contribution claim, coherence check, abstract
\* generation; a step is invoked only after the one before it returned, no step is
\* invoked twice, and after a step that raised no step is invoked.
C28_TenStepsInOrder ==
    [][ pipe'.op = "run_pipeline"
        => LET order == << "NotionKeywordSync", "EpistemicModeClassifier",
                           "EpistemicRuleEngine", "TensionExtractor",
                           "ResearchPositionBuilder", "ResearchQuestionGenerator",
                           "MethodLogicAligner", "ContributionClaimer",
                           "CoherenceChecker", "AbstractGenerator" >>
               n == Len(pipe'.calls)
           IN  /\ n <= Len(order)
               /\ StepNames(pipe') = SubSeq(order, 1, n)
               /\ pipe.op = "run_pipeline"
                  => /\ n \in { Len(pipe.calls), Len(pipe.calls) + 1 }
                     /\ SubSeq(pipe'.calls, 1, Len(pipe.calls)) = pipe.calls
                     /\ pipe.exc # "none" => pipe'.calls = pipe.calls
               /\ pipe'.exc = "none" /\ n = Len(order) <=> pipe'.status = "returned" ]_vars

\* a run of run_pipeline that returned after its ten steps
C28_Witness ==
    /\ pipe.op = "run_pipeline"
    /\ pipe.status = "returned"
    /\ Len(pipe.calls) = 10
    /\ pipe.calls[10].name = "AbstractGenerator"

\* C29: update_keywords invokes the keyword sync and then the rule engine and no
\* other step: whatever it has invoked is the beginning of that list of two, and it
\* returns when both have run.
C29_OnlyTwoSteps ==
    [][ pipe'.op = "update_keywords"
        => LET n == Len(pipe'.calls)
           IN  /\ n <= 2
               /\ StepNames(pipe') =
                    SubSeq(<< "NotionKeywordSync", "EpistemicRuleEngine" >>, 1, n)
               /\ pipe'.status = "returned" => n = 2
               /\ pipe.op = "update_keywords"
                  => /\ n \in { Len(pipe.calls), Len(pipe.calls) + 1 }
                     /\ pipe.status = "returned" => pipe'.calls = pipe.calls ]_vars

\* update_keywords returned, with its two steps run, on the Artifact of a full run
C29_Witness ==
    /\ pipe.op = "update_keywords"
    /\ pipe.status = "returned"
    /\ Len(pipe.calls) = 2
    /\ pipe.before["selected_rq"] # EmptyText
    /\ pipe.state["research_questions"] = pipe.before["research_questions"]

\* C30: the Artifact fields a process_message call assigned are either all the fields
\* the phase table gives the phase in force at the call, or none, a call in which a
\* skill fails partway through tension_discovery or method_contribution included.
C30_ExtractionAllOrNothing ==
    [][\A sid \in DOMAIN sessions :
         Turn(sid)
         => last'.wrote \in { {}, TableFields(PromptPhase(sessions, sid)) }]_vars

\* C31: the coherence check changes nothing it was given. run_logic_check leaves the
\* session (phase, transcript, raw input, every Artifact field) and its file as they
\* were, whether the skill returns or raises, and step 9 of run_pipeline changes no
\* field of the state other than coherence_notes.
C31_CoherenceCheckKeepsFields ==
    [][ /\ last'.op = "run_logic_check"
           => /\ sessions' = sessions
              /\ disk' = disk
        /\ ( /\ pipe'.op = "run_pipeline"
             /\ pipe.pc = 8
             /\ pipe'.pc = 9 )
           => \A field \in DOMAIN pipe.state \ { "coherence_notes" } :
                pipe'.state[field] = pipe.state[field] ]_vars

\* run_logic_check has called the CoherenceChecker, which returned, for a session past
\* its greeting that holds a research type
C31_Witness ==
    /\ last.op = "run_logic_check"
    /\ last.exc = "none"
    /\ Len(last.calls) = 1
    /\ last.sid \in DOMAIN sessions
    /\ sessions[last.sid]["framing"]["Research Type"] # EmptyText
    /\ Len(sessions[last.sid]["messages"]) > 0

\* C32: the merge of step 2 of run_pipeline does not depend on which profile is merged
\* into which: the profile the step leaves, the classifier's profile merged into the
\* profile the keyword sync returned, has the weights of the keyword sync's profile
\* merged into the classifier's, also when one of the two names fewer than the four
\* orientations.
C32_MergeOrderIndependent ==
    [][ ( /\ pipe'.op = "run_pipeline"
          /\ pipe.pc = 1
          /\ pipe'.pc = 2
          /\ pipe'.exc = "none"
          /\ "epistemic_profile" \in DOMAIN pipe.sync
          /\ "epistemic_profile" \in DOMAIN pipe'.proposed )
        => pipe'.state.epistemic_profile =
             MergeProfile(pipe'.proposed["epistemic_profile"],
                          pipe.sync["epistemic_profile"]) ]_vars

\* the contents of the user-role messages of a transcript, in order
UserTurns(messages) ==
    LET mine == SelectSeq(messages, LAMBDA m : m.role = "user")
    IN  [i \in 1 .. Len(mine) |-> mine[i].content]

C34_PhaseMatchesIndex ==
    \A sid \in DOMAIN sessions :
      /\ sessions[sid]["phase_index"] \in 0 .. 5
      /\ sessions[sid]["phase"] = PHASE_ORDER[sessions[sid]["phase_index"] + 1]

\* a turn with a ready signal on a session that was complete already
C34_Witness ==
    /\ last.op = "process_message"
    /\ last.extraction_happened
    /\ last.sid \in DOMAIN sessions
    /\ sessions[last.sid]["phase"] = "complete"
    /\ Len(sessions[last.sid]["raw_input_parts"]) = 5

\* C35: a process_message call whose completion request fails raises with the session
\* object already changed and nothing written to its file: the user's message has
\* been added to the transcript and to raw_input_parts, no reply follows it, a session
\* in greeting has moved to tension_discovery, the Artifact is as it was. A turn that
\* sends the same message again right after such a call leaves the message twice in a
\* row in both lists.
C35_FailedCompletionKeepsMessage ==
    [][\A sid \in DOMAIN sessions :
         Turn(sid)
         => LET old == sessions[sid]
                new == sessions'[sid]
                n == Len(old["messages"])
                k == Len(old["raw_input_parts"])
            IN  /\ ~last'.completion.ok
                   => /\ last'.exc # "none"
                      /\ disk' = disk
                      /\ Len(new["messages"]) = n + 1
                      /\ SubSeq(new["messages"], 1, n) = old["messages"]
                      /\ new["messages"][n + 1].role = "user"
                      /\ new["raw_input_parts"] =
                           Append(old["raw_input_parts"], new["messages"][n + 1].content)
                      /\ new["phase"] = IF old["phase"] = "greeting"
                                        THEN "tension_discovery" ELSE old["phase"]
                      /\ new["phase_index"] = IF old["phase"] = "greeting"
                                              THEN 1 ELSE old["phase_index"]
                      /\ new["framing"] = old["framing"]
                /\ ( /\ last.op = "process_message"
                     /\ last.sid = sid
                     /\ ~last.completion.ok
                     /\ new["messages"][n + 1] = old["messages"][n] )
                   => /\ new["messages"][n].role = "user"
                      /\ new["raw_input_parts"][k + 1] = new["raw_input_parts"][k]
                      /\ new["raw_input_parts"][k] = old["messages"][n].content]_vars

\* the same message sent again after a call whose completion request failed, to a
\* user who could have sent another: it stands twice in a row in both lists, and the
\* session's file has neither
C35_Witness ==
    /\ last.op = "process_message"
    /\ last.sid \in DOMAIN sessions
    /\ LET session == sessions[last.sid]
           n == Len(session["messages"])
           k == Len(session["raw_input_parts"])
       IN  /\ ~last.completion.ok
           /\ k = 2
           /\ n = 2
           /\ session["messages"][1] = session["messages"][2]
           /\ session["messages"][2].role = "user"
           /\ session["raw_input_parts"][1] = session["raw_input_parts"][2]
           /\ session["phase"] = "tension_discovery"

\* C36: once the keyword sync of an update_keywords call has returned,
\* epistemic_profile and keyword_map are what it returned, or what the state held
\* before the call where it returned none; nothing of what the state held before is
\* merged in. When the rule engine of the call then raises, the state has these new
\* fields and the rule_engine_output it had before the call.
C36_UpdateReplacesKeywordFields ==
    ( /\ pipe.op = "update_keywords"
      /\ pipe.pc = 2 \/ (pipe.pc = 1 /\ pipe.exc = "none") )
    => /\ pipe.state.epistemic_profile =
            IF "epistemic_profile" \in DOMAIN pipe.sync
            THEN pipe.sync["epistemic_profile"] ELSE pipe.before.epistemic_profile
       /\ pipe.state.keyword_map =
            IF "keyword_map" \in DOMAIN pipe.sync
            THEN pipe.sync["keyword_map"] ELSE pipe.before.keyword_map
       /\ (pipe.pc = 2 /\ pipe.exc # "none")
          => pipe.state.rule_engine_output = pipe.before.rule_engine_output

\* update_keywords on the Artifact of a full run whose classifier had raised the weight
\* of "critical" and added a term to it: the keyword sync returned a smaller weight and
\* fewer terms, the rule engine raised, and the state holds the smaller weight, the
\* fewer terms and the rule_engine_output of the full run
C36_Witness ==
    /\ pipe.op = "update_keywords"
    /\ pipe.pc = 2
    /\ pipe.status = "raised"
    /\ "epistemic_profile" \in DOMAIN pipe.sync
    /\ "keyword_map" \in DOMAIN pipe.sync
    /\ "critical" \in DOMAIN pipe.before.epistemic_profile
    /\ pipe.before.epistemic_profile["critical"] > pipe.state.epistemic_profile["critical"]
    /\ Len(pipe.before.keyword_map["critical"]) > Len(pipe.state.keyword_map["critical"])
    /\ pipe.state.rule_engine_output # INITIAL_STATE.rule_engine_output

\* the session exists and is in the phase complete
IsComplete(sid) == sid \in DOMAIN sessions /\ sessions[sid]["phase"] = "complete"

\* the process_message calls made on the session
TurnsOf(sid) == IF sid \in DOMAIN sessions THEN Len(sessions[sid]["raw_input_parts"]) ELSE 0

\* C37: a session whose every call returns and whose every reply carries the ready
\* signal of the phase in force moves to a later phase with every turn until it is
\* complete, is complete after five process_message calls at the latest, and once
\* complete is complete after every later turn.
C37_DrivenSessionCompletes ==
    /\ [][\A sid \in DOMAIN sessions :
            (Turn(sid) /\ ~IsComplete(sid))
            => sessions'[sid]["phase_index"] > sessions[sid]["phase_index"]]_vars
    /\ [](\A sid \in SessionIds : TurnsOf(sid) >= 5 => IsComplete(sid))
    /\ [][\A sid \in SessionIds : IsComplete(sid) => IsComplete(sid)']_vars

\* a turn on a session that was complete before it, and is complete after it
C37_Witness ==
    /\ last.op = "process_message"
    /\ last.sid \in DOMAIN sessions
    /\ sessions[last.sid]["phase"] = "complete"
    /\ sessions[last.sid]["phase_index"] = 5
    /\ Len(sessions[last.sid]["raw_input_parts"]) = 5

====
